---- MODULE Spec2Model ----
(***************************************************************************)
(* Model of the aggregation service of back/index.js: the two Express      *)
(* handlers GET /developers and GET /user/:username, the shared NodeCache  *)
(* and the upstream GitHub API they call.  Every action is one run of a    *)
(* handler between two suspension points (awaits): the arrival of a        *)
(* request up to its first await, or the continuation resumed by the       *)
(* completion of an upstream call or by a timer.                           *)
(***************************************************************************)
EXTENDS Integers, Sequences, FiniteSets, TLC

VARIABLES
  now,       \* wall clock, in seconds (Date.now() / 1000)
  ticks,     \* number of clock advances taken so far
  cache,     \* NodeCache contents: key -> [v |-> value, t |-> expiry time]
  setLog,    \* history of the cache.set calls: key, value, time, the request
             \* that called and the status of the response it sent
  arrivals,  \* number of requests received so far
  pc,        \* per request slot: the await the handler is suspended at
  param,     \* per request slot: req.params.username ("" for /developers)
  arrival,   \* per request slot: on arrival, the time, the cache key asked
             \* for and the number of cache.set calls made before
  calls,     \* per request slot: upstream calls issued, in issue order
  pending,   \* per request slot: upstream calls in flight
  timers,    \* per request slot: staggered language fetches not yet issued
  resp,      \* per request slot: the response sent, or NoResp
  sent,      \* per request slot: number of res.json calls
  loc,       \* per request slot: the handler's local variables
  env,       \* process.env, read once at start-up
  fnIn,      \* argument of the function under study (function specifications)
  fnOut      \* its result, once applied

vars == <<now, ticks, cache, setLog, arrivals, pc, param, arrival, calls,
          pending, timers, resp, sent, loc, env, fnIn, fnOut>>

\* what no handler writes
fixedVars == <<env, fnIn, fnOut>>
svcVars == <<now, ticks, cache, setLog, arrivals, pc, param, arrival, calls,
             pending, timers, resp, sent, loc>>

(***************************************************************************)
(* Program constants.                                                      *)
(***************************************************************************)
stdTTL == 3600
MAX_DEVELOPERS == 100
REPO_SAMPLE_LIMIT == 50
LANGUAGE_LIMIT == 5
perPage == 100
MinRemaining == 50
TopReposLimit == 10
FollowersPreviewLimit == 8

(***************************************************************************)
(* Bounds of the model.                                                    *)
(***************************************************************************)
MaxTicks == 2
MaxRequests == 3

Reqs == {"r1", "r2", "r3", "r4"}

Null == "null"

\* the value of an environment variable that is not set, as a template
\* literal prints it
Undefined == "undefined"

\* process.env with and without GITHUB_TOKEN
Configured == [GITHUB_TOKEN |-> "ghp_secret"]
Unconfigured == [GITHUB_TOKEN |-> Undefined]

\* const githubHeaders = { Accept, ...(GITHUB_TOKEN ? { Authorization } : {}) }
githubHeaders ==
  IF env.GITHUB_TOKEN # Undefined
  THEN [Accept |-> "application/vnd.github.v3+json",
        Authorization |-> "token " \o env.GITHUB_TOKEN]
  ELSE [Accept |-> "application/vnd.github.v3+json"]

\* axios.create({ headers: { Authorization: `token ${GITHUB_TOKEN}`, Accept } })
githubAPIHeaders ==
  [Authorization |-> "token " \o env.GITHUB_TOKEN,
   Accept |-> "application/vnd.github.v3+json"]

Min(a, b) == IF a < b THEN a ELSE b

\* Math.ceil(a / b) for a >= 0, b > 0
Ceil(a, b) == (a + b - 1) \div b

\* Array.prototype.slice(0, n)
Slice(s, n) == SubSeq(s, 1, Min(n, Len(s)))

\* reposRes.data.filter(repo => !repo.fork)
RECURSIVE NonFork(_)
NonFork(s) ==
  IF s = <<>> THEN <<>>
  ELSE IF ~Head(s).fork THEN <<Head(s)>> \o NonFork(Tail(s))
       ELSE NonFork(Tail(s))

(***************************************************************************)
(* NodeCache({ stdTTL: 3600 }).  set stamps the entry with now + stdTTL;   *)
(* get treats an entry whose stamp is in the past as absent and removes    *)
(* it.                                                                     *)
(***************************************************************************)
Miss == [found |-> FALSE]
Hit(v) == [found |-> TRUE, v |-> v]

\* a cache built without stdTTL: entries never expire
ExpiredNever(e, time) == FALSE

Expired(e, time) == e.t < time

CacheGet(c, key, time) ==
  IF key \in DOMAIN c /\ ~Expired(c[key], time) THEN Hit(c[key].v) ELSE Miss

\* the store after get(key): an expired entry is deleted on access
CacheAfterGet(c, key, time) ==
  IF key \in DOMAIN c /\ Expired(c[key], time)
  THEN [k \in DOMAIN c \ {key} |-> c[k]]
  ELSE c

\* a store that keeps the entry a key already has: the first writer wins
CacheSetIfAbsent(c, key, v, time) ==
  [k \in DOMAIN c \cup {key} |->
     IF k \in DOMAIN c THEN c[k] ELSE [v |-> v, t |-> time + stdTTL]]

\* a store that updates an entry in place: of the entry a key already has
\* the profile part (single account) or the entries already listed (bulk
\* list) are kept, the rest comes from the new value
CacheSetMerging(c, key, v, time) ==
  [k \in DOMAIN c \cup {key} |->
     IF k # key THEN c[k]
     ELSE IF key \notin DOMAIN c
     THEN [v |-> v, t |-> time + stdTTL]
     ELSE IF key = "developers"
     THEN [v |-> [i \in 1..Len(v) |->
                    IF i <= Len(c[key].v) THEN c[key].v[i] ELSE v[i]],
           t |-> time + stdTTL]
     ELSE [v |-> [v EXCEPT !.profile = c[key].v.profile], t |-> time + stdTTL]]

CacheSet(c, key, v, time) ==
  [k \in DOMAIN c \cup {key} |->
     IF k = key THEN [v |-> v, t |-> time + stdTTL] ELSE c[k]]

DevelopersKey == "developers"

\* a key that is the bare username
UserKeyBare(username) == username

\* const cacheKey = `user-${username}`
UserKey(username) == "user-" \o username

(***************************************************************************)
(* Upstream errors, as axios rejects with them.                            *)
(***************************************************************************)
ResetEpoch == 9000

\* `message` is error.message, which axios composes from the status code;
\* `dataMessage` is error.response.data.message, the text of the upstream
\* body ("" where there is no response), and `rateLimitMsg` says whether
\* that text includes 'API rate limit exceeded'.
ErrRateLimited == [response |-> TRUE, status |-> 403, rateLimitMsg |-> TRUE,
                   reset |-> ResetEpoch,
                   message |-> "Request failed with status code 403",
                   dataMessage |-> "API rate limit exceeded for 1.2.3.4."]
ErrTooMany     == [response |-> TRUE, status |-> 429, rateLimitMsg |-> FALSE,
                   reset |-> ResetEpoch,
                   message |-> "Request failed with status code 429",
                   dataMessage |-> "secondary rate limit"]
ErrNotFound    == [response |-> TRUE, status |-> 404, rateLimitMsg |-> FALSE,
                   reset |-> ResetEpoch,
                   message |-> "Request failed with status code 404",
                   dataMessage |-> "Not Found"]
ErrUnavailable == [response |-> TRUE, status |-> 503, rateLimitMsg |-> FALSE,
                   reset |-> ResetEpoch,
                   message |-> "Request failed with status code 503",
                   dataMessage |-> "Service Unavailable"]
ErrNetwork     == [response |-> FALSE, status |-> 0, rateLimitMsg |-> FALSE,
                   reset |-> 0, message |-> "socket hang up",
                   dataMessage |-> ""]

\* error.response?.data?.message || error.message
UpstreamMessage(error) ==
  IF error.response /\ error.dataMessage # "" THEN error.dataMessage
  ELSE error.message

NoResp == [status |-> 0]
NoLoc == [h |-> "none"]

\* what a catch block holds: the error thrown and the await it was thrown at
Caught(r, error) == [h |-> "caught", error |-> error, stage |-> pc[r]]
NoArrival == [at |-> 0, seen |-> 0, key |-> ""]

Call(api, i) == [api |-> api, i |-> i]

Pending == [st |-> "pending"]
Ok(d) == [st |-> "ok", data |-> d]

Free(r) == pc[r] \in {"idle", "done"} /\ pending[r] = {} /\ timers[r] = <<>>

(***************************************************************************)
(* res.json / res.status(s).json: the response leaves and the handler's    *)
(* locals go out of scope.                                                 *)
(***************************************************************************)
Send(r, status, body) ==
  /\ resp' = [resp EXCEPT ![r] = [status |-> status, body |-> body]]
  /\ sent' = [sent EXCEPT ![r] = @ + 1]
  /\ pc' = [pc EXCEPT ![r] = "done"]

(***************************************************************************)
(* GET /user/:username                                                     *)
(***************************************************************************)

\* the language byte tally: languages[lang] = (languages[lang] || 0) + bytes.
\* A JavaScript object is a sequence of <<key, value>> pairs in insertion
\* order.
HasKey(obj, k) == \E i \in 1..Len(obj) : obj[i][1] = k

Lookup(obj, k) == obj[CHOOSE i \in 1..Len(obj) : obj[i][1] = k][2]

\* languages[lang] = bytes: the last repository's figure replaces the sum
AddBytesOverwrite(languages, lang, bytes) ==
  IF HasKey(languages, lang)
  THEN [i \in 1..Len(languages) |->
          IF languages[i][1] = lang THEN <<lang, bytes>> ELSE languages[i]]
  ELSE Append(languages, <<lang, bytes>>)

AddBytes(languages, lang, bytes) ==
  IF HasKey(languages, lang)
  THEN [i \in 1..Len(languages) |->
          IF languages[i][1] = lang
          THEN <<lang, languages[i][2] + bytes>>
          ELSE languages[i]]
  ELSE Append(languages, <<lang, bytes>>)

\* Object.entries(repoLanguages).forEach(([lang, bytes]) => ...)
RECURSIVE MergeRepoLanguages(_, _)
MergeRepoLanguages(languages, repoLanguages) ==
  IF repoLanguages = <<>> THEN languages
  ELSE MergeRepoLanguages(
         AddBytes(languages, Head(repoLanguages)[1], Head(repoLanguages)[2]),
         Tail(repoLanguages))

\* languageResponses.forEach(response => ...), in the order of the array
RECURSIVE TallyLanguages(_, _)
TallyLanguages(languages, languageResponses) ==
  IF languageResponses = <<>> THEN languages
  ELSE TallyLanguages(MergeRepoLanguages(languages, Head(languageResponses)),
                      Tail(languageResponses))

\* Array.prototype.sort((a, b) => b[2] - a[2]): stable, descending on the
\* second component.  Insertion of x behind every element that is not
\* smaller keeps equal elements in their original order.
RECURSIVE InsertDesc(_, _)
InsertDesc(sorted, x) ==
  IF sorted = <<>> THEN <<x>>
  ELSE IF Head(sorted)[2] >= x[2]
       THEN <<Head(sorted)>> \o InsertDesc(Tail(sorted), x)
       ELSE <<x>> \o sorted

RECURSIVE SortDesc(_)
SortDesc(entries) ==
  IF entries = <<>> THEN <<>>
  ELSE InsertDesc(SortDesc(SubSeq(entries, 1, Len(entries) - 1)),
                  entries[Len(entries)])

\* .map(([name, bytes]) => ({ name, bytes })).sort((a, b) => b.bytes - a.bytes)
LanguageList(languages) ==
  LET sorted == SortDesc(languages)
  IN  [i \in 1..Len(sorted) |-> [name |-> sorted[i][1], bytes |-> sorted[i][2]]]

\* a total over the first ten repositories only, the ones sampled for
\* languages
RECURSIVE TotalContributionsOfSample(_)
TotalContributionsOfSample(repos) ==
  IF repos = <<>> THEN 0
  ELSE IF Len(repos) > 10 THEN TotalContributionsOfSample(SubSeq(repos, 1, 10))
  ELSE Head(repos).stargazers_count + Head(repos).forks_count
       + TotalContributionsOfSample(Tail(repos))

\* repos.reduce((sum, repo) => sum + repo.stargazers_count + repo.forks_count, 0)
RECURSIVE TotalContributions(_)
TotalContributions(repos) ==
  IF repos = <<>> THEN 0
  ELSE Head(repos).stargazers_count + Head(repos).forks_count
       + TotalContributions(Tail(repos))

Repository(repo) ==
  [id |-> repo.id, stars |-> repo.stargazers_count,
   forks |-> repo.forks_count, language |-> repo.language]

UserData(userRes, repos, followersRes, orgsRes, languageResponses) ==
  [profile |-> [data |-> userRes,
                followers_preview |-> Slice(followersRes, FollowersPreviewLimit),
                organizations |-> orgsRes],
   statistics |-> [totalRepos |-> userRes.public_repos,
                   totalContributions |-> TotalContributions(repos),
                   followerCount |-> userRes.followers,
                   followingCount |-> userRes.following],
   languages |-> LanguageList(TallyLanguages(<<>>, languageResponses)),
   repositories |-> [i \in 1..Len(repos) |-> Repository(repos[i])]]

\* a catch block that also stores the error body under the request's key
UserCatchCaching(r, error) ==
  LET body == [error |-> "Failed to fetch user data",
               message |-> UpstreamMessage(error)] IN
  /\ Send(r, IF error.response THEN error.status ELSE 500, body)
  /\ loc' = [loc EXCEPT ![r] = Caught(r, error)]
  /\ cache' = CacheSet(cache, UserKey(param[r]), body, now)
  /\ setLog' = Append(setLog, [key |-> UserKey(param[r]), v |-> body,
                               at |-> now, by |-> r, status |-> 500])

\* a catch block that answers 500 whatever the upstream said
UserCatchAlways500(r, error) ==
  /\ Send(r, 500, [error |-> "Failed to fetch user data",
                    message |-> UpstreamMessage(error)])
  /\ loc' = [loc EXCEPT ![r] = Caught(r, error)]
  /\ UNCHANGED <<cache, setLog>>

\* a catch block that serves what the handler has gathered so far
UserCatchPartial(r, error) ==
  /\ Send(r, 200, [profile |-> IF "userRes" \in DOMAIN loc[r]
                                THEN loc[r].userRes ELSE Null,
                    languages |-> <<>>])
  /\ loc' = [loc EXCEPT ![r] = Caught(r, error)]
  /\ UNCHANGED <<cache, setLog>>

\* a catch block that logs the error and sends nothing
UserCatchLogOnly(r, error) ==
  /\ pc' = [pc EXCEPT ![r] = "caught"]
  /\ loc' = [loc EXCEPT ![r] = Caught(r, error)]
  /\ UNCHANGED <<resp, sent, cache, setLog>>

\* the catch block of the handler
UserCatch(r, error) ==
  /\ IF error.response /\ error.status = 403 /\ error.rateLimitMsg
     THEN Send(r, 429, [error |-> "Rate limit exceeded",
                        message |-> "try again after resetTime",
                        resetTime |-> error.reset])
     ELSE Send(r, IF error.response THEN error.status ELSE 500,
               [error |-> "Failed to fetch user data",
                message |-> UpstreamMessage(error)])
  /\ loc' = [loc EXCEPT ![r] = Caught(r, error)]
  /\ UNCHANGED <<cache, setLog>>

\* cache.set(cacheKey, userData); res.json(userData)
UserFinish(r, remaining, userRes, repos, followersRes, orgsRes, languageResponses, completionOrder, join, joinOrder) ==
  LET userData == UserData(userRes, repos, followersRes, orgsRes, languageResponses) IN
  /\ loc' = [loc EXCEPT ![r] =
               [h |-> "user", remaining |-> remaining,
                userRes |-> userRes, repos |-> repos,
                followersRes |-> followersRes, orgsRes |-> orgsRes,
                languageResponses |-> languageResponses,
                completionOrder |-> completionOrder,
                join |-> join, joinOrder |-> joinOrder]]
  /\ cache' = CacheSet(cache, UserKey(param[r]), userData, now)
  /\ setLog' = Append(setLog, [key |-> UserKey(param[r]), v |-> userData,
                               at |-> now, by |-> r, status |-> 200])
  /\ Send(r, 200, userData)

\* a handler that queries the budget before it looks into the cache: the
\* query goes out on a hit as well
UserRequestQueryFirst(r, W) ==
  /\ r \in W.userSlots
  /\ Free(r)
  /\ arrivals < W.requests
  /\ \E username \in W.usernames :
       LET cached == CacheGet(cache, UserKey(username), now) IN
       /\ arrivals' = arrivals + 1
       /\ param' = [param EXCEPT ![r] = username]
       /\ arrival' = [arrival EXCEPT ![r] = [at |-> now, seen |-> Len(setLog),
                                             key |-> UserKey(username)]]
       /\ cache' = CacheAfterGet(cache, UserKey(username), now)
       /\ loc' = [loc EXCEPT ![r] = NoLoc]
       /\ calls' = [calls EXCEPT ![r] = <<Call("rate_limit", 0)>>]
       /\ pending' = [pending EXCEPT ![r] = {Call("rate_limit", 0)}]
       /\ IF cached.found
          THEN /\ resp' = [resp EXCEPT ![r] = [status |-> 200, body |-> cached.v]]
               /\ sent' = [sent EXCEPT ![r] = 1]
               /\ pc' = [pc EXCEPT ![r] = "done"]
          ELSE /\ resp' = [resp EXCEPT ![r] = NoResp]
               /\ sent' = [sent EXCEPT ![r] = 0]
               /\ pc' = [pc EXCEPT ![r] = "rate_limit"]
  /\ UNCHANGED fixedVars
  /\ UNCHANGED <<now, ticks, setLog, timers>>

\* The request arrives: cache lookup, and on a miss the budget query is
\* issued.
UserRequest(r, W) ==
  /\ r \in W.userSlots
  /\ Free(r)
  /\ arrivals < W.requests
  /\ \E username \in W.usernames :
       LET cached == CacheGet(cache, UserKey(username), now) IN
       /\ arrivals' = arrivals + 1
       /\ param' = [param EXCEPT ![r] = username]
       /\ arrival' = [arrival EXCEPT ![r] = [at |-> now, seen |-> Len(setLog),
                                             key |-> UserKey(username)]]
       /\ cache' = CacheAfterGet(cache, UserKey(username), now)
       /\ loc' = [loc EXCEPT ![r] = NoLoc]
       /\ IF cached.found
          THEN /\ resp' = [resp EXCEPT ![r] = [status |-> 200, body |-> cached.v]]
               /\ sent' = [sent EXCEPT ![r] = 1]
               /\ pc' = [pc EXCEPT ![r] = "done"]
               /\ calls' = [calls EXCEPT ![r] = <<>>]
               /\ pending' = pending
          ELSE /\ resp' = [resp EXCEPT ![r] = NoResp]
               /\ sent' = [sent EXCEPT ![r] = 0]
               /\ pc' = [pc EXCEPT ![r] = "rate_limit"]
               /\ calls' = [calls EXCEPT ![r] = <<Call("rate_limit", 0)>>]
               /\ pending' = [pending EXCEPT ![r] = {Call("rate_limit", 0)}]
  /\ UNCHANGED fixedVars
  /\ UNCHANGED <<now, ticks, setLog, timers>>

\* a guard that refuses only an exhausted budget
DenyWhenExhausted(remaining) == remaining <= 0

\* a guard that also refuses a budget of exactly the minimum
DenyAtMinimum(remaining) == remaining <= MinRemaining

\* if (remaining < 50)
Deny(remaining) == remaining < MinRemaining

\* a handler that puts the profile fetch into the same Promise.all as the
\* repos, followers and orgs fetches: the four go out together
UserRateLimitReturnFanOut(r, W) ==
  /\ pc[r] = "rate_limit"
  /\ \/ \E error \in W.errors :
          /\ UserCatch(r, error)
          /\ pending' = [pending EXCEPT ![r] = {}]
          /\ UNCHANGED calls
     \/ \E remaining \in W.remaining :
          /\ loc' = [loc EXCEPT ![r] = [h |-> "user", remaining |-> remaining]]
          /\ UNCHANGED <<cache, setLog>>
          /\ IF Deny(remaining)
             THEN /\ Send(r, 429, [error |-> "Rate limit near exceeded",
                                   message |-> "try again after resetTime",
                                   remainingCalls |-> remaining,
                                   resetTime |-> ResetEpoch])
                  /\ pending' = [pending EXCEPT ![r] = {}]
                  /\ UNCHANGED calls
             ELSE /\ pc' = [pc EXCEPT ![r] = "profile"]
                  /\ calls' = [calls EXCEPT ![r] =
                                 @ \o <<Call("profile", 0), Call("repos", 0),
                                        Call("followers", 0), Call("orgs", 0)>>]
                  /\ pending' = [pending EXCEPT ![r] =
                                   {Call("profile", 0), Call("repos", 0),
                                    Call("followers", 0), Call("orgs", 0)}]
                  /\ UNCHANGED <<resp, sent>>
  /\ UNCHANGED fixedVars
  /\ UNCHANGED <<now, ticks, arrivals, param, arrival, timers>>

\* await githubAPI.get('/rate_limit') returns or throws
UserRateLimitReturn(r, W) ==
  /\ pc[r] = "rate_limit"
  /\ \/ \E error \in W.errors :
          /\ UserCatch(r, error)
          /\ pending' = [pending EXCEPT ![r] = {}]
          /\ UNCHANGED calls
     \/ \E remaining \in W.remaining :
          /\ loc' = [loc EXCEPT ![r] = [h |-> "user", remaining |-> remaining]]
          /\ UNCHANGED <<cache, setLog>>
          /\ IF Deny(remaining)
             THEN /\ Send(r, 429, [error |-> "Rate limit near exceeded",
                                   message |-> "try again after resetTime",
                                   remainingCalls |-> remaining,
                                   resetTime |-> ResetEpoch])
                  /\ pending' = [pending EXCEPT ![r] = {}]
                  /\ UNCHANGED calls
             ELSE /\ pc' = [pc EXCEPT ![r] = "profile"]
                  /\ calls' = [calls EXCEPT ![r] = Append(@, Call("profile", 0))]
                  /\ pending' = [pending EXCEPT ![r] = {Call("profile", 0)}]
                  /\ UNCHANGED <<resp, sent>>
  /\ UNCHANGED fixedVars
  /\ UNCHANGED <<now, ticks, arrivals, param, arrival, timers>>

\* a sample without a limit: every non-fork repository is asked for its
\* languages
TopReposAll(repos) == repos

\* const topRepos = repos.slice(0, 10)
TopRepos(repos) == Slice(repos, TopReposLimit)

JoinApis == {"repos", "followers", "orgs"}

\* a handler in which the three calls of Promise.all go out when the
\* profile fetch settles, whether it succeeded or failed
UserProfileReturnEager(r, W) ==
  /\ pc[r] = "profile"
  /\ calls' = [calls EXCEPT ![r] =
                 @ \o <<Call("repos", 0), Call("followers", 0), Call("orgs", 0)>>]
  /\ pending' = [pending EXCEPT ![r] = {Call(a, 0) : a \in {"repos", "followers", "orgs"}}]
  /\ \/ \E error \in W.errors : UserCatch(r, error)
     \/ \E followers \in W.followerCounts :
          /\ pc' = [pc EXCEPT ![r] = "join"]
          /\ loc' = [loc EXCEPT ![r] =
                       [h |-> "user", remaining |-> loc[r].remaining,
                        userRes |-> [login |-> param[r], followers |-> followers,
                                     following |-> 1, public_repos |-> 2],
                        join |-> [a \in {"repos", "followers", "orgs"} |-> Pending],
                        joinOrder |-> <<>>]]
          /\ UNCHANGED <<resp, sent, cache, setLog>>
  /\ UNCHANGED fixedVars
  /\ UNCHANGED <<now, ticks, arrivals, param, arrival, timers>>

\* await githubAPI.get('/users/:username') returns or throws; on success
\* the three calls of Promise.all are issued.
UserProfileReturn(r, W) ==
  /\ pc[r] = "profile"
  /\ \/ \E error \in W.errors :
          /\ UserCatch(r, error)
          /\ pending' = [pending EXCEPT ![r] = {}]
          /\ UNCHANGED calls
     \/ \E followers \in W.followerCounts :
          /\ pc' = [pc EXCEPT ![r] = "join"]
          /\ loc' = [loc EXCEPT ![r] =
                       [h |-> "user", remaining |-> loc[r].remaining,
                        userRes |-> [login |-> param[r], followers |-> followers,
                                     following |-> 1, public_repos |-> 2],
                        join |-> [a \in JoinApis |-> Pending],
                        joinOrder |-> <<>>]]
          /\ calls' = [calls EXCEPT ![r] =
                         @ \o <<Call("repos", 0), Call("followers", 0), Call("orgs", 0)>>]
          /\ pending' = [pending EXCEPT ![r] = {Call(a, 0) : a \in JoinApis}]
          /\ UNCHANGED <<resp, sent, cache, setLog>>
  /\ UNCHANGED fixedVars
  /\ UNCHANGED <<now, ticks, arrivals, param, arrival, timers>>

\* the data an upstream endpoint of the join may answer with
JoinData(api, W) ==
  CASE api = "repos" -> W.repoLists
    [] api = "followers" -> W.followerLists
    [] api = "orgs" -> W.orgLists

\* the order in which the answers to a Promise.all have come in, kept
\* where the world asks for it; the handler itself keeps no such order
Completed(W, completionOrder, i) ==
  IF W.recordOrder THEN Append(completionOrder, i) ELSE completionOrder

\* a join that hands out the followers and orgs answers in the order they
\* came in instead of by position
JoinResultsAsCompleted(join, joinOrder) ==
  LET orgsFirst == \E i, j \in 1..Len(joinOrder) :
                     i < j /\ joinOrder[i] = "orgs" /\ joinOrder[j] = "followers"
  IN  [reposRes |-> join["repos"].data,
       followersRes |-> join[IF orgsFirst THEN "orgs" ELSE "followers"].data,
       orgsRes |-> join[IF orgsFirst THEN "followers" ELSE "orgs"].data]

\* const [reposRes, followersRes, orgsRes] = await Promise.all([...]):
\* Promise.all hands out the answers by position
JoinResults(join, joinOrder) ==
  [reposRes |-> join["repos"].data,
   followersRes |-> join["followers"].data,
   orgsRes |-> join["orgs"].data]

\* One of the three calls of Promise.all returns or throws.  The first
\* rejection rejects the join; the last fulfilment resumes the handler,
\* which starts one staggered language fetch per sampled repository.
UserJoinReturn(r, W) ==
  /\ pc[r] = "join"
  /\ \E c \in pending[r] :
       \/ \E error \in W.errors :
            /\ UserCatch(r, error)
            /\ pending' = [pending EXCEPT ![r] = @ \ {c}]
            /\ UNCHANGED timers
       \/ \E data \in JoinData(c.api, W) :
            LET join == [loc[r].join EXCEPT ![c.api] = Ok(data)]
                joinOrder == Completed(W, loc[r].joinOrder, c.api)
                results == JoinResults(join, joinOrder)
                repos == NonFork(results.reposRes)
                topRepos == TopRepos(repos)
            IN
            /\ pending' = [pending EXCEPT ![r] = @ \ {c}]
            /\ IF \E a \in JoinApis : join[a] = Pending
               THEN /\ loc' = [loc EXCEPT ![r].join = join,
                                          ![r].joinOrder = joinOrder]
                    /\ UNCHANGED <<pc, resp, sent, cache, setLog, timers>>
               ELSE IF topRepos = <<>>
               THEN /\ UserFinish(r, loc[r].remaining, loc[r].userRes, repos,
                                  results.followersRes, results.orgsRes,
                                  <<>>, <<>>, join, joinOrder)
                    /\ UNCHANGED timers
               ELSE /\ pc' = [pc EXCEPT ![r] = "languages"]
                    /\ loc' = [loc EXCEPT ![r] =
                                 [h |-> "user", remaining |-> loc[r].remaining,
                                  userRes |-> loc[r].userRes,
                                  repos |-> repos,
                                  followersRes |-> results.followersRes,
                                  orgsRes |-> results.orgsRes,
                                  languageResponses |->
                                    [i \in 1..Len(topRepos) |-> Pending],
                                  completionOrder |-> <<>>,
                                  join |-> join, joinOrder |-> joinOrder]]
                    /\ timers' = [timers EXCEPT ![r] =
                                    [i \in 1..Len(topRepos) |-> i]]
                    /\ UNCHANGED <<resp, sent, cache, setLog>>
  /\ UNCHANGED fixedVars
  /\ UNCHANGED <<now, ticks, arrivals, param, arrival, calls>>

\* setTimeout(resolve, index * 100) fires: the language fetch of the next
\* sampled repository is issued.  The timers were all started when the
\* join resumed, so they fire in index order, whatever became of the
\* request in between.
UserLanguageIssue(r) ==
  /\ timers[r] # <<>>
  /\ calls' = [calls EXCEPT ![r] = Append(@, Call("languages", Head(timers[r])))]
  /\ pending' = [pending EXCEPT ![r] = @ \cup {Call("languages", Head(timers[r]))}]
  /\ timers' = [timers EXCEPT ![r] = Tail(@)]
  /\ UNCHANGED fixedVars
  /\ UNCHANGED <<now, ticks, cache, setLog, arrivals, pc, param, arrival,
                 resp, sent, loc>>

\* A language fetch returns or throws while Promise.all(languagePromises)
\* is awaited.  Promise.all keeps the results by index.
UserLanguageReturn(r, W) ==
  /\ pc[r] = "languages"
  /\ \E c \in pending[r] :
       /\ pending' = [pending EXCEPT ![r] = @ \ {c}]
       /\ \/ \E error \in W.errors : UserCatch(r, error)
          \/ \E repoLanguages \in W.languageMaps :
               LET languageResponses ==
                     [loc[r].languageResponses EXCEPT ![c.i] = Ok(repoLanguages)]
               IN
               IF \E i \in 1..Len(languageResponses) : languageResponses[i] = Pending
               THEN /\ loc' = [loc EXCEPT ![r].languageResponses = languageResponses,
                                          ![r].completionOrder = Completed(W, @, c.i)]
                    /\ UNCHANGED <<pc, resp, sent, cache, setLog>>
               ELSE UserFinish(r, loc[r].remaining, loc[r].userRes, loc[r].repos,
                               loc[r].followersRes, loc[r].orgsRes,
                               [i \in 1..Len(languageResponses) |->
                                  languageResponses[i].data],
                               Completed(W, loc[r].completionOrder, c.i),
                               loc[r].join, loc[r].joinOrder)
  /\ UNCHANGED fixedVars
  /\ UNCHANGED <<now, ticks, arrivals, param, arrival, calls, timers>>

(***************************************************************************)
(* GET /developers                                                         *)
(***************************************************************************)

\* an item of the search result: the account ranked `rank` by followers
SearchItem(rank) ==
  LET login == "dev" \o ToString(rank) IN
  [login |-> login, avatar_url |-> "avatar/" \o login,
   html_url |-> "html/" \o login, repos_url |-> "repos/" \o login]

\* data.items.map(user => ({ username: user.login, ... })); the items of a
\* search carry no follower count, so followers is user.followers || 0 = 0
Summary(user) ==
  [username |-> user.login, avatar |-> user.avatar_url,
   profile |-> user.html_url, repos_url |-> user.repos_url, followers |-> 0]

\* the profile GET /users/:login answers with
BulkProfile(login, followers) ==
  [login |-> login, avatar_url |-> "avatar2/" \o login,
   html_url |-> "html2/" \o login, followers |-> followers]

\* a count without the test for a language: a repository that has none is
\* counted under null
CountLanguageUnguarded(acc, repo) ==
  IF HasKey(acc, repo.language)
  THEN [i \in 1..Len(acc) |->
          IF acc[i][1] = repo.language
          THEN <<repo.language, acc[i][2] + 1>>
          ELSE acc[i]]
  ELSE Append(acc, <<repo.language, 1>>)

\* acc[repo.language] = (acc[repo.language] || 0) + 1, for a repository
\* with a language
CountLanguage(acc, repo) ==
  IF repo.language # Null
  THEN IF HasKey(acc, repo.language)
       THEN [i \in 1..Len(acc) |->
               IF acc[i][1] = repo.language
               THEN <<repo.language, acc[i][2] + 1>>
               ELSE acc[i]]
       ELSE Append(acc, <<repo.language, 1>>)
  ELSE acc

\* repos.reduce((acc, repo) => ..., {})
RECURSIVE LanguageCounts(_, _)
LanguageCounts(acc, repos) ==
  IF repos = <<>> THEN acc
  ELSE LanguageCounts(CountLanguage(acc, Head(repos)), Tail(repos))

\* a ranking that visits the entries last-seen first, so that equal counts
\* come out in the reverse of their first-seen order
RankLanguagesLastSeenFirst(languageCounts) ==
  LET n == Len(languageCounts)
      sorted == SortDesc([i \in 1..n |-> languageCounts[n + 1 - i]])
  IN  Slice([i \in 1..Len(sorted) |-> sorted[i][1]], LANGUAGE_LIMIT)

\* Object.entries(languageCounts).sort((a, b) => b[1] - a[1])
\*   .map(([name]) => name).slice(0, LANGUAGE_LIMIT)
RankLanguages(languageCounts) ==
  LET sorted == SortDesc(languageCounts)
  IN  Slice([i \in 1..Len(sorted) |-> sorted[i][1]], LANGUAGE_LIMIT)

BulkLanguages(reposData) ==
  RankLanguages(LanguageCounts(<<>>, Slice(NonFork(reposData), REPO_SAMPLE_LIMIT)))

Enriched(developer, userRes, reposData) ==
  [username |-> developer.username, avatar |-> userRes.avatar_url,
   profile |-> userRes.html_url, repos_url |-> developer.repos_url,
   followers |-> userRes.followers, languages |-> BulkLanguages(reposData)]

\* a fallback entry that forgets the summary fields
DegradedBare(developer) ==
  [username |-> developer.username, languages |-> <<>>]

\* { ...developer, languages: [] }
Degraded(developer) ==
  [username |-> developer.username, avatar |-> developer.avatar,
   profile |-> developer.profile, repos_url |-> developer.repos_url,
   followers |-> developer.followers, languages |-> <<>>]

\* an outer catch block that serves and caches the accounts gathered so far
DevCatchPartial(r, error) ==
  LET partial == IF loc[r].h = "dev" THEN loc[r].allDevelopers ELSE <<>> IN
  /\ Send(r, 200, partial)
  /\ loc' = [loc EXCEPT ![r] = Caught(r, error)]
  /\ cache' = CacheSet(cache, DevelopersKey, partial, now)
  /\ setLog' = Append(setLog, [key |-> DevelopersKey, v |-> partial,
                               at |-> now, by |-> r, status |-> 200])

\* the outer catch block
DevCatch(r, error) ==
  /\ Send(r, 500, [error |-> "Failed to fetch developers", message |-> error.message])
  /\ loc' = [loc EXCEPT ![r] = Caught(r, error)]
  /\ UNCHANGED <<cache, setLog>>

\* an ending that caches the list as discovered and serves the enriched
\* one
DevFinishCachingSummaries(r, locals) ==
  /\ loc' = [loc EXCEPT ![r] = locals]
  /\ cache' = CacheSet(cache, DevelopersKey, locals.allDevelopers, now)
  /\ setLog' = Append(setLog, [key |-> DevelopersKey,
                               v |-> locals.allDevelopers,
                               at |-> now, by |-> r, status |-> 200])
  /\ Send(r, 200, locals.enrichedDevelopers)

\* an ending that serves a list with a degraded entry without caching it
DevFinishUnlessDegraded(r, locals) ==
  /\ loc' = [loc EXCEPT ![r] = locals]
  /\ IF \E i \in 1..Len(locals.joins) :
          \E a \in DOMAIN locals.joins[i] : locals.joins[i][a].st = "failed"
     THEN UNCHANGED <<cache, setLog>>
     ELSE /\ cache' = CacheSet(cache, DevelopersKey, locals.enrichedDevelopers, now)
          /\ setLog' = Append(setLog, [key |-> DevelopersKey,
                                       v |-> locals.enrichedDevelopers,
                                       at |-> now, by |-> r, status |-> 200])
  /\ Send(r, 200, locals.enrichedDevelopers)

\* cache.set('developers', enrichedDevelopers); res.json(enrichedDevelopers)
DevFinish(r, locals) ==
  /\ loc' = [loc EXCEPT ![r] = locals]
  /\ cache' = CacheSet(cache, DevelopersKey, locals.enrichedDevelopers, now)
  /\ setLog' = Append(setLog, [key |-> DevelopersKey,
                               v |-> locals.enrichedDevelopers,
                               at |-> now, by |-> r, status |-> 200])
  /\ Send(r, 200, locals.enrichedDevelopers)

BulkApis == {"profile", "repos"}

\* The enrichment loop reaches the next developer: its two calls are
\* issued by Promise.all; past the last developer the result is cached and
\* sent.  The loop is entered from the discovery and re-entered when the
\* pause after a developer ends.  `joins` keeps, per developer, what its
\* two calls answered.
DevEnrichNext(r, locals, inflight) ==
  LET idx == locals.idx + 1 IN
  IF idx > Len(locals.allDevelopers)
  THEN /\ pc' = [pc EXCEPT ![r] = "done"]
       /\ DevFinish(r, locals)
       /\ pending' = [pending EXCEPT ![r] = inflight]
       /\ UNCHANGED calls
  ELSE /\ pc' = [pc EXCEPT ![r] = "enrich"]
       /\ loc' = [loc EXCEPT ![r] =
                    [locals EXCEPT !.idx = idx,
                                   !.joins = Append(@, [a \in BulkApis |-> Pending])]]
       /\ calls' = [calls EXCEPT ![r] =
                      @ \o <<Call("profile", idx), Call("repos", idx)>>]
       /\ pending' = [pending EXCEPT ![r] =
                        inflight \cup {Call("profile", idx), Call("repos", idx)}]
       /\ UNCHANGED <<resp, sent, cache, setLog>>

\* await new Promise(resolve => setTimeout(resolve, REQUEST_DELAY_MS)): the
\* developer's entry has been pushed and the handler returns to the event
\* loop; nothing is issued, cached or sent until the timer fires.
DevEnrichDelay(r, locals, inflight) ==
  /\ pc' = [pc EXCEPT ![r] = "enrich_delay"]
  /\ loc' = [loc EXCEPT ![r] = locals]
  /\ pending' = [pending EXCEPT ![r] = inflight]
  /\ UNCHANGED <<calls, resp, sent, cache, setLog>>

\* The request arrives: cache lookup, and on a miss the probe is issued.
DevRequest(r, W) ==
  /\ r \in W.bulkSlots
  /\ Free(r)
  /\ arrivals < W.requests
  /\ LET cached == CacheGet(cache, DevelopersKey, now) IN
     /\ arrivals' = arrivals + 1
     /\ param' = [param EXCEPT ![r] = ""]
     /\ arrival' = [arrival EXCEPT ![r] = [at |-> now, seen |-> Len(setLog),
                                           key |-> DevelopersKey]]
     /\ cache' = CacheAfterGet(cache, DevelopersKey, now)
     /\ loc' = [loc EXCEPT ![r] = NoLoc]
     /\ IF cached.found
        THEN /\ resp' = [resp EXCEPT ![r] = [status |-> 200, body |-> cached.v]]
             /\ sent' = [sent EXCEPT ![r] = 1]
             /\ pc' = [pc EXCEPT ![r] = "done"]
             /\ calls' = [calls EXCEPT ![r] = <<>>]
             /\ pending' = pending
        ELSE /\ resp' = [resp EXCEPT ![r] = NoResp]
             /\ sent' = [sent EXCEPT ![r] = 0]
             /\ pc' = [pc EXCEPT ![r] = "probe"]
             /\ calls' = [calls EXCEPT ![r] = <<Call("search_probe", 0)>>]
             /\ pending' = [pending EXCEPT ![r] = {Call("search_probe", 0)}]
  /\ UNCHANGED fixedVars
  /\ UNCHANGED <<now, ticks, setLog, timers>>

\* a clamp at 1000, the limit of the search API
ClampTotalAtThousand(total_count) == Min(total_count, 1000)

\* Math.min(initialResponse.data.total_count, MAX_DEVELOPERS)
ClampTotal(total_count) == Min(total_count, MAX_DEVELOPERS)

\* The probe (per_page: 1) returns or throws; the page count is computed
\* and the first page is requested.
DevProbeReturn(r, W) ==
  /\ pc[r] = "probe"
  /\ \/ \E error \in W.errors :
          /\ DevCatch(r, error)
          /\ pending' = [pending EXCEPT ![r] = {}]
          /\ UNCHANGED calls
     \/ \E total_count \in W.totals :
          LET totalCount == ClampTotal(total_count)
              pages == Ceil(totalCount, perPage)
              locals == [h |-> "dev", total_count |-> total_count,
                         pages |-> pages, page |-> 1, received |-> 0,
                         allDevelopers |-> <<>>,
                         enrichedDevelopers |-> <<>>, idx |-> 0, joins |-> <<>>]
          IN
          IF 1 <= pages
          THEN /\ pc' = [pc EXCEPT ![r] = "page"]
               /\ loc' = [loc EXCEPT ![r] = locals]
               /\ calls' = [calls EXCEPT ![r] = Append(@, Call("search", 1))]
               /\ pending' = [pending EXCEPT ![r] = {Call("search", 1)}]
               /\ UNCHANGED <<resp, sent, cache, setLog>>
          ELSE DevEnrichNext(r, locals, {})
  /\ UNCHANGED fixedVars
  /\ UNCHANGED <<now, ticks, arrivals, param, arrival, timers>>

\* no truncation at the cap
CapDevelopersNot(allDevelopers) == allDevelopers

\* allDevelopers.slice(0, MAX_DEVELOPERS)
CapDevelopers(allDevelopers) == Slice(allDevelopers, MAX_DEVELOPERS)

\* a mapping that re-sorts the page, least followers first: the upstream
\* order reversed
DevelopersResorted(items) ==
  [i \in 1..Len(items) |-> Summary(items[Len(items) + 1 - i])]

\* const developers = data.items.map(user => ({ ... }))
Developers(items) == [i \in 1..Len(items) |-> Summary(items[i])]

\* A page of the search returns or throws.  The items are appended; at the
\* cap the list is cut and the loop left; otherwise the handler waits out
\* the one-second pause before the next page, or the loop ends and
\* enrichment starts.
DevPageReturn(r, W) ==
  /\ pc[r] = "page"
  /\ \/ \E error \in W.errors :
          /\ DevCatch(r, error)
          /\ pending' = [pending EXCEPT ![r] = {}]
          /\ UNCHANGED calls
     \/ \E n \in W.pageSizes :
          LET page == loc[r].page
              items == [i \in 1..n |-> SearchItem((page - 1) * perPage + i)]
              developers == Developers(items)
              allDevelopers == loc[r].allDevelopers \o developers
          IN
          IF Len(allDevelopers) >= MAX_DEVELOPERS
          THEN DevEnrichNext(r, [loc[r] EXCEPT !.received = @ + n,
                                               !.allDevelopers =
                                                 CapDevelopers(allDevelopers)], {})
          ELSE IF page < loc[r].pages
          THEN /\ pc' = [pc EXCEPT ![r] = "page_delay"]
               /\ loc' = [loc EXCEPT ![r].received = @ + n,
                                     ![r].allDevelopers = allDevelopers]
               /\ pending' = [pending EXCEPT ![r] = {}]
               /\ UNCHANGED <<calls, resp, sent, cache, setLog>>
          ELSE DevEnrichNext(r, [loc[r] EXCEPT !.received = @ + n,
                                               !.allDevelopers = allDevelopers], {})
  /\ UNCHANGED fixedVars
  /\ UNCHANGED <<now, ticks, arrivals, param, arrival, timers>>

\* the data an upstream endpoint of the bulk enrichment may answer with
BulkData(api, login, W) ==
  CASE api = "profile" -> {BulkProfile(login, f) : f \in W.followerCounts}
    [] api = "repos" -> W.repoLists

Failed(error) == [st |-> "failed", error |-> error]

\* an inner catch that only logs: the developer is left out
PushNothing(enrichedDevelopers, developer) == enrichedDevelopers

\* the inner catch: enrichedDevelopers.push({ ...developer, languages: [] })
PushDegraded(enrichedDevelopers, developer) ==
  Append(enrichedDevelopers, Degraded(developer))

\* One of the two calls of the current developer returns or throws.  The
\* first rejection is caught and the developer degraded; the second
\* fulfilment yields the enriched entry.  Either way the entry is pushed
\* and the handler waits out the 150 ms pause.
DevEnrichReturn(r, W) ==
  /\ pc[r] = "enrich"
  /\ \E c \in {x \in pending[r] : x.i = loc[r].idx} :
       LET idx == loc[r].idx
           developer == loc[r].allDevelopers[idx]
       IN
       \/ \E error \in W.errors :
            DevEnrichDelay(r, [loc[r] EXCEPT
                                 !.joins[idx][c.api] = Failed(error),
                                 !.enrichedDevelopers = PushDegraded(@, developer)],
                           pending[r] \ {c})
       \/ \E data \in BulkData(c.api, developer.username, W) :
            LET join == [loc[r].joins[idx] EXCEPT ![c.api] = Ok(data)] IN
            IF \E a \in BulkApis : join[a] = Pending
            THEN /\ loc' = [loc EXCEPT ![r].joins[idx] = join]
                 /\ pending' = [pending EXCEPT ![r] = @ \ {c}]
                 /\ UNCHANGED <<pc, calls, resp, sent, cache, setLog>>
            ELSE DevEnrichDelay(r, [loc[r] EXCEPT
                                      !.joins[idx] = join,
                                      !.enrichedDevelopers =
                                        Append(@, Enriched(developer,
                                                           join["profile"].data,
                                                           join["repos"].data))],
                                pending[r] \ {c})
  /\ UNCHANGED fixedVars
  /\ UNCHANGED <<now, ticks, arrivals, param, arrival, timers>>

\* A pause of the handler ends.  After the pause between two pages the next
\* page is requested; after the pause that follows a developer the loop
\* reaches the next developer, or, past the last one, caches and sends the
\* list.
DevDelayEnd(r) ==
  /\ pc[r] \in {"page_delay", "enrich_delay"}
  /\ IF pc[r] = "page_delay"
     THEN LET page == loc[r].page + 1 IN
          /\ pc' = [pc EXCEPT ![r] = "page"]
          /\ loc' = [loc EXCEPT ![r].page = page]
          /\ calls' = [calls EXCEPT ![r] = Append(@, Call("search", page))]
          /\ pending' = [pending EXCEPT ![r] = {Call("search", page)}]
          /\ UNCHANGED <<resp, sent, cache, setLog>>
     ELSE DevEnrichNext(r, loc[r], pending[r])
  /\ UNCHANGED fixedVars
  /\ UNCHANGED <<now, ticks, arrivals, param, arrival, timers>>

\* An upstream call returns or throws after the handler has answered: its
\* promise is no longer awaited by anything.
Awaited(r, c) ==
  CASE pc[r] = "done" -> FALSE
    [] pc[r] = "enrich" -> c.i = loc[r].idx
    [] pc[r] = "enrich_delay" -> FALSE
    [] OTHER -> TRUE

AbandonedReturn(r) ==
  /\ \E c \in pending[r] :
       /\ ~Awaited(r, c)
       /\ pending' = [pending EXCEPT ![r] = @ \ {c}]
  /\ UNCHANGED fixedVars
  /\ UNCHANGED <<now, ticks, cache, setLog, arrivals, pc, param, arrival,
                 calls, timers, resp, sent, loc>>

\* time passes
Tick ==
  /\ ticks < MaxTicks
  /\ ticks' = ticks + 1
  /\ \E d \in {1, stdTTL} : now' = now + d
  /\ UNCHANGED fixedVars
  /\ UNCHANGED <<cache, setLog, arrivals, pc, param, arrival, calls, pending,
                 timers, resp, sent, loc>>

Idle ==
  /\ now = 0
  /\ ticks = 0
  /\ cache = <<>>
  /\ setLog = <<>>
  /\ arrivals = 0
  /\ pc = [r \in Reqs |-> "idle"]
  /\ param = [r \in Reqs |-> ""]
  /\ arrival = [r \in Reqs |-> NoArrival]
  /\ calls = [r \in Reqs |-> <<>>]
  /\ pending = [r \in Reqs |-> {}]
  /\ timers = [r \in Reqs |-> <<>>]
  /\ resp = [r \in Reqs |-> NoResp]
  /\ sent = [r \in Reqs |-> 0]
  /\ loc = [r \in Reqs |-> NoLoc]

NoFn == [applied |-> FALSE]

Init == Idle /\ env = Configured /\ fnIn = <<>> /\ fnOut = NoFn

\* the start with or without a token in the environment
InitAuth == Idle /\ env \in {Configured, Unconfigured} /\ fnIn = <<>> /\ fnOut = NoFn

\* the headers the upstream calls of the request in slot r are sent with:
\* /developers passes githubHeaders to axios.get, /user/:username calls
\* through the githubAPI instance
HeadersOf(r) ==
  IF arrival[r].key = DevelopersKey THEN githubHeaders ELSE githubAPIHeaders

AllErrors == {ErrRateLimited, ErrTooMany, ErrNotFound, ErrUnavailable, ErrNetwork}

Repo(id, fork, language, stars, forks) ==
  [id |-> id, fork |-> fork, language |-> language,
   stargazers_count |-> stars, forks_count |-> forks]

(***************************************************************************)
(* The service under concurrent requests to both endpoints, with the clock *)
(* running.                                                                *)
(***************************************************************************)
World ==
  [userSlots |-> {"r2"},
   bulkSlots |-> {"r1"},
   usernames |-> {"abel"},
   errors |-> {ErrUnavailable},
   remaining |-> {49, 50},
   followerCounts |-> {7},
   repoLists |-> {<<Repo(1, FALSE, "Go", 2, 1)>>},
   followerLists |-> {<<"f1">>},
   orgLists |-> {<<"o1">>},
   languageMaps |-> {<< <<"Go", 10>> >>},
   totals |-> {0, 1},
   pageSizes |-> {1},
   requests |-> MaxRequests,
   recordOrder |-> FALSE]

Next ==
  \/ Tick
  \/ \E r \in Reqs :
       \/ UserRequest(r, World)
       \/ UserRateLimitReturn(r, World)
       \/ UserProfileReturn(r, World)
       \/ UserJoinReturn(r, World)
       \/ UserLanguageIssue(r)
       \/ UserLanguageReturn(r, World)
       \/ DevRequest(r, World)
       \/ DevProbeReturn(r, World)
       \/ DevPageReturn(r, World)
       \/ DevEnrichReturn(r, World)
       \/ DevDelayEnd(r)
       \/ AbandonedReturn(r)

Spec == Init /\ [][Next]_vars

\* the same service started with or without GITHUB_TOKEN
SpecAuth == InitAuth /\ [][Next]_vars

(***************************************************************************)
(* Concurrent single-account requests for one username, with the clock     *)
(* running.                                                                *)
(***************************************************************************)
RaceWorld ==
  [World EXCEPT !.userSlots = {"r1", "r2"}, !.bulkSlots = {},
                !.followerCounts = {7, 8}]

NextRace ==
  \/ Tick
  \/ \E r \in Reqs :
       \/ UserRequest(r, RaceWorld)
       \/ UserRateLimitReturn(r, RaceWorld)
       \/ UserProfileReturn(r, RaceWorld)
       \/ UserJoinReturn(r, RaceWorld)
       \/ UserLanguageIssue(r)
       \/ UserLanguageReturn(r, RaceWorld)
       \/ AbandonedReturn(r)

SpecRace == Init /\ [][NextRace]_vars

(***************************************************************************)
(* One single-account request at a time, over varied upstream data.        *)
(***************************************************************************)
UserWorld ==
  [userSlots |-> {"r1"},
   bulkSlots |-> {},
   usernames |-> {"abel"},
   errors |-> AllErrors,
   remaining |-> {0, 49, 50, 51},
   followerCounts |-> {7, 8},
   repoLists |-> {<<>>,
                  <<Repo(1, FALSE, "Go", 2, 1), Repo(2, TRUE, "C", 5, 5),
                    Repo(3, FALSE, Null, 0, 3)>>},
   followerLists |-> {<<"f1">>},
   orgLists |-> {<<"o1">>},
   languageMaps |-> {<< <<"A", 10>>, <<"B", 5>> >>, << <<"A", 3>>, <<"C", 7>> >>, <<>>},
   totals |-> {},
   pageSizes |-> {},
   requests |-> MaxRequests,
   recordOrder |-> TRUE]

NextUser ==
  \E r \in Reqs :
    \/ UserRequest(r, UserWorld)
    \/ UserRateLimitReturn(r, UserWorld)
    \/ UserProfileReturn(r, UserWorld)
    \/ UserJoinReturn(r, UserWorld)
    \/ UserLanguageIssue(r)
    \/ UserLanguageReturn(r, UserWorld)
    \/ AbandonedReturn(r)

SpecUser == Init /\ [][NextUser]_vars

(***************************************************************************)
(* One bulk request at a time, over varied enrichment outcomes.            *)
(***************************************************************************)
MaxAccounts == 3

BulkWorld ==
  [userSlots |-> {},
   bulkSlots |-> {"r1"},
   usernames |-> {},
   errors |-> {ErrUnavailable, ErrRateLimited},
   remaining |-> {},
   followerCounts |-> {7},
   repoLists |-> {<<>>,
                  <<Repo(1, FALSE, "Go", 2, 1), Repo(2, TRUE, "C", 5, 5),
                    Repo(3, FALSE, Null, 0, 3), Repo(4, FALSE, "Rust", 0, 0),
                    Repo(5, FALSE, "Rust", 0, 0)>>},
   followerLists |-> {},
   orgLists |-> {},
   languageMaps |-> {},
   totals |-> {0, 1, MaxAccounts, 250},
   pageSizes |-> 0..MaxAccounts,
   requests |-> MaxRequests,
   recordOrder |-> FALSE]

NextBulk ==
  \E r \in Reqs :
    \/ DevRequest(r, BulkWorld)
    \/ DevProbeReturn(r, BulkWorld)
    \/ DevPageReturn(r, BulkWorld)
    \/ DevEnrichReturn(r, BulkWorld)
    \/ DevDelayEnd(r)
    \/ AbandonedReturn(r)

SpecBulk == Init /\ [][NextBulk]_vars

(***************************************************************************)
(* Four concurrent single-account requests for an account with more than   *)
(* ten repositories while the upstream reports a remaining budget of 50,   *)
(* up to the moment the language fetches are in flight.                    *)
(***************************************************************************)
MaxConcurrent == 4

BudgetWorld ==
  [userSlots |-> Reqs,
   bulkSlots |-> {},
   usernames |-> {"abel"},
   errors |-> {},
   remaining |-> {MinRemaining},
   followerCounts |-> {7},
   repoLists |-> {[k \in 1..(TopReposLimit + 1) |-> Repo(k, FALSE, "Go", 0, 0)]},
   followerLists |-> {<<"f1">>},
   orgLists |-> {<<"o1">>},
   languageMaps |-> {},
   totals |-> {},
   pageSizes |-> {},
   requests |-> MaxConcurrent,
   recordOrder |-> FALSE]

NextBudget ==
  \E r \in Reqs :
    \/ UserRequest(r, BudgetWorld)
    \/ UserRateLimitReturn(r, BudgetWorld)
    \/ UserProfileReturn(r, BudgetWorld)
    \/ UserJoinReturn(r, BudgetWorld)
    \/ UserLanguageIssue(r)

SpecBudget == Init /\ [][NextBudget]_vars

(***************************************************************************)
(* One single-account request at a time for accounts with up to thirteen   *)
(* repositories, ten and more of them non-forks.                           *)
(***************************************************************************)
\* n repositories, the k-th a fork when k is in forks
RepoList(n, forks) == [k \in 1..n |-> Repo(k, k \in forks, "Go", k, 1)]

SampleWorld ==
  [userSlots |-> {"r1"},
   bulkSlots |-> {},
   usernames |-> {"abel"},
   errors |-> {ErrUnavailable},
   remaining |-> {MinRemaining},
   followerCounts |-> {7},
   repoLists |-> {RepoList(2, {1}), RepoList(TopReposLimit, {}),
                  RepoList(TopReposLimit + 1, {}),
                  RepoList(TopReposLimit + 3, {2, 5})},
   followerLists |-> {<<"f1">>},
   orgLists |-> {<<"o1">>},
   languageMaps |-> {<< <<"Go", 10>> >>},
   totals |-> {},
   pageSizes |-> {},
   requests |-> MaxRequests,
   recordOrder |-> FALSE]

NextSample ==
  \E r \in Reqs :
    \/ UserRequest(r, SampleWorld)
    \/ UserRateLimitReturn(r, SampleWorld)
    \/ UserProfileReturn(r, SampleWorld)
    \/ UserJoinReturn(r, SampleWorld)
    \/ UserLanguageIssue(r)
    \/ UserLanguageReturn(r, SampleWorld)
    \/ AbandonedReturn(r)

SpecSample == Init /\ [][NextSample]_vars

(***************************************************************************)
(* Both endpoints over one cache, with single-account requests for two     *)
(* usernames, one of them spelled like the bulk key, the upstream          *)
(* answering every call and the clock running.                             *)
(***************************************************************************)
KeyWorld ==
  [userSlots |-> {"r2"},
   bulkSlots |-> {"r1"},
   usernames |-> {"abel", "developers"},
   errors |-> {},
   remaining |-> {MinRemaining},
   followerCounts |-> {7},
   repoLists |-> {<<>>},
   followerLists |-> {<<"f1">>},
   orgLists |-> {<<"o1">>},
   languageMaps |-> {},
   totals |-> {0, 1},
   pageSizes |-> {1},
   requests |-> MaxRequests,
   recordOrder |-> FALSE]

NextKey ==
  \/ Tick
  \/ \E r \in Reqs :
       \/ UserRequest(r, KeyWorld)
       \/ UserRateLimitReturn(r, KeyWorld)
       \/ UserProfileReturn(r, KeyWorld)
       \/ UserJoinReturn(r, KeyWorld)
       \/ DevRequest(r, KeyWorld)
       \/ DevProbeReturn(r, KeyWorld)
       \/ DevPageReturn(r, KeyWorld)
       \/ DevEnrichReturn(r, KeyWorld)
       \/ DevDelayEnd(r)

SpecKey == Init /\ [][NextKey]_vars

(***************************************************************************)
(* Both endpoints with an upstream that answers or fails every call in the *)
(* end, and timers that fire: a continuation that can run does run.        *)
(***************************************************************************)
LiveWorld ==
  [userSlots |-> {"r2"},
   bulkSlots |-> {"r1"},
   usernames |-> {"abel"},
   errors |-> {ErrUnavailable},
   remaining |-> {49, 50},
   followerCounts |-> {7},
   repoLists |-> {<<Repo(1, FALSE, "Go", 2, 1), Repo(2, FALSE, "C", 0, 0)>>},
   followerLists |-> {<<"f1">>},
   orgLists |-> {<<"o1">>},
   languageMaps |-> {<< <<"Go", 10>> >>},
   totals |-> {0, 2},
   pageSizes |-> {2},
   requests |-> MaxRequests,
   recordOrder |-> FALSE]

NextLive ==
  \E r \in Reqs :
    \/ UserRequest(r, LiveWorld)
    \/ UserRateLimitReturn(r, LiveWorld)
    \/ UserProfileReturn(r, LiveWorld)
    \/ UserJoinReturn(r, LiveWorld)
    \/ UserLanguageIssue(r)
    \/ UserLanguageReturn(r, LiveWorld)
    \/ DevRequest(r, LiveWorld)
    \/ DevProbeReturn(r, LiveWorld)
    \/ DevPageReturn(r, LiveWorld)
    \/ DevEnrichReturn(r, LiveWorld)
    \/ DevDelayEnd(r)
    \/ AbandonedReturn(r)

\* every call in flight is answered or fails, every timer fires
FairLive ==
  \A r \in Reqs :
    /\ WF_vars(UserRateLimitReturn(r, LiveWorld))
    /\ WF_vars(UserProfileReturn(r, LiveWorld))
    /\ WF_vars(UserJoinReturn(r, LiveWorld))
    /\ WF_vars(UserLanguageIssue(r))
    /\ WF_vars(UserLanguageReturn(r, LiveWorld))
    /\ WF_vars(DevProbeReturn(r, LiveWorld))
    /\ WF_vars(DevPageReturn(r, LiveWorld))
    /\ WF_vars(DevEnrichReturn(r, LiveWorld))
    /\ WF_vars(DevDelayEnd(r))
    /\ WF_vars(AbandonedReturn(r))

SpecLive == Init /\ [][NextLive]_vars /\ FairLive

(***************************************************************************)
(* Bulk requests one after another for two accounts whose fetches may      *)
(* fail, with the clock running.                                           *)
(***************************************************************************)
DegradedWorld ==
  [userSlots |-> {},
   bulkSlots |-> {"r1"},
   usernames |-> {},
   errors |-> {ErrUnavailable},
   remaining |-> {},
   followerCounts |-> {7},
   repoLists |-> {<<Repo(1, FALSE, "Go", 2, 1)>>},
   followerLists |-> {},
   orgLists |-> {},
   languageMaps |-> {},
   totals |-> {2},
   pageSizes |-> {2},
   requests |-> MaxRequests,
   recordOrder |-> FALSE]

NextDegraded ==
  \/ Tick
  \/ \E r \in Reqs :
       \/ DevRequest(r, DegradedWorld)
       \/ DevProbeReturn(r, DegradedWorld)
       \/ DevPageReturn(r, DegradedWorld)
       \/ DevEnrichReturn(r, DegradedWorld)
       \/ DevDelayEnd(r)
       \/ AbandonedReturn(r)

SpecDegraded == Init /\ [][NextDegraded]_vars

(***************************************************************************)
(* Two bulk requests that may overlap, over a result of at most one        *)
(* account, with the clock running: a request that arrives while another   *)
(* is in a pause, or waits for an answer, finds no list stored yet.        *)
(***************************************************************************)
OverlapWorld ==
  [userSlots |-> {},
   bulkSlots |-> {"r1", "r2"},
   usernames |-> {},
   errors |-> {ErrUnavailable},
   remaining |-> {},
   followerCounts |-> {7},
   repoLists |-> {<<Repo(1, FALSE, "Go", 2, 1)>>},
   followerLists |-> {},
   orgLists |-> {},
   languageMaps |-> {},
   totals |-> {0, 1},
   pageSizes |-> {0, 1},
   requests |-> MaxRequests,
   recordOrder |-> FALSE]

NextOverlap ==
  \/ Tick
  \/ \E r \in Reqs :
       \/ DevRequest(r, OverlapWorld)
       \/ DevProbeReturn(r, OverlapWorld)
       \/ DevPageReturn(r, OverlapWorld)
       \/ DevEnrichReturn(r, OverlapWorld)
       \/ DevDelayEnd(r)
       \/ AbandonedReturn(r)

SpecOverlap == Init /\ [][NextOverlap]_vars

(***************************************************************************)
(* Two request slots that serve either endpoint, so that two bulk          *)
(* requests, two requests for one account, or one of each may be in        *)
(* progress together; the upstream reports 7 or 8 followers and any call   *)
(* may fail, so two cycles for one key can compute different values.  The  *)
(* requests overlap within one TTL window: the clock does not move.        *)
(***************************************************************************)
WritersWorld ==
  [userSlots |-> {"r1", "r2"},
   bulkSlots |-> {"r1", "r2"},
   usernames |-> {"abel"},
   errors |-> {ErrUnavailable},
   remaining |-> {50},
   followerCounts |-> {7, 8},
   repoLists |-> {<<Repo(1, FALSE, "Go", 2, 1)>>},
   followerLists |-> {<<"f1">>},
   orgLists |-> {<<"o1">>},
   languageMaps |-> {<< <<"Go", 10>> >>},
   totals |-> {1},
   pageSizes |-> {1},
   requests |-> MaxRequests,
   recordOrder |-> FALSE]

NextWriters ==
  \E r \in Reqs :
    \/ UserRequest(r, WritersWorld)
    \/ UserRateLimitReturn(r, WritersWorld)
    \/ UserProfileReturn(r, WritersWorld)
    \/ UserJoinReturn(r, WritersWorld)
    \/ UserLanguageIssue(r)
    \/ UserLanguageReturn(r, WritersWorld)
    \/ DevRequest(r, WritersWorld)
    \/ DevProbeReturn(r, WritersWorld)
    \/ DevPageReturn(r, WritersWorld)
    \/ DevEnrichReturn(r, WritersWorld)
    \/ DevDelayEnd(r)
    \/ AbandonedReturn(r)

SpecWriters == Init /\ [][NextWriters]_vars

(***************************************************************************)
(* Discovery alone, over result pages around the cap.                      *)
(***************************************************************************)
DiscoveryWorld ==
  [userSlots |-> {},
   bulkSlots |-> {"r1", "r2"},
   usernames |-> {},
   errors |-> {ErrUnavailable},
   remaining |-> {},
   followerCounts |-> {},
   repoLists |-> {},
   followerLists |-> {},
   orgLists |-> {},
   languageMaps |-> {},
   totals |-> {0, 1, 2, 99, 100, 101, 199, 200, 201, 250, 1000},
   pageSizes |-> {0, 1, 2, 99, 100, 101, 150},
   requests |-> MaxRequests,
   recordOrder |-> FALSE]

NextDiscovery ==
  \E r \in Reqs :
    \/ DevRequest(r, DiscoveryWorld)
    \/ DevProbeReturn(r, DiscoveryWorld)
    \/ DevPageReturn(r, DiscoveryWorld)

SpecDiscovery == Init /\ [][NextDiscovery]_vars

(***************************************************************************)
(* The language ranking of the bulk enrichment as a function of the        *)
(* repository list the upstream answers with.                              *)
(***************************************************************************)
MaxRepos == 4

\* what one repository of an enumerated list may be: <<fork, language>>
RankItems ==
  {<<FALSE, "Go">>, <<FALSE, "Rust">>, <<FALSE, "Python">>, <<FALSE, Null>>,
   <<TRUE, "Go">>}

RepoOf(k, fork, language) == Repo(k, fork, language, 0, 0)

\* Go:3, Rust:3, Python:1, first seen in the order Rust, Go, Python
TiedRepos ==
  <<RepoOf(1, FALSE, "Rust"), RepoOf(2, FALSE, "Go"), RepoOf(3, TRUE, "C"),
    RepoOf(4, FALSE, "Go"), RepoOf(5, FALSE, "Python"), RepoOf(6, FALSE, "Rust"),
    RepoOf(7, FALSE, Null), RepoOf(8, FALSE, "Go"), RepoOf(9, FALSE, "Rust")>>

\* seven languages, two of them twice
ManyLanguageRepos ==
  <<RepoOf(1, FALSE, "L1"), RepoOf(2, FALSE, "L2"), RepoOf(3, FALSE, "L3"),
    RepoOf(4, FALSE, "L4"), RepoOf(5, FALSE, "L5"), RepoOf(6, FALSE, "L6"),
    RepoOf(7, FALSE, "L7"), RepoOf(8, FALSE, "L7"), RepoOf(9, FALSE, "L3")>>

\* six languages, one of them twice, next to a fork and a repository
\* without a language
MixedRepos ==
  <<RepoOf(1, FALSE, "L1"), RepoOf(2, TRUE, "L9"), RepoOf(3, FALSE, "L2"),
    RepoOf(4, FALSE, "L2"), RepoOf(5, FALSE, Null), RepoOf(6, FALSE, "L3"),
    RepoOf(7, FALSE, "L4"), RepoOf(8, FALSE, "L5"), RepoOf(9, FALSE, "L6")>>

\* the repository lists of length n and less, and the three fixed ones
RankInputs(n) ==
  {TiedRepos, ManyLanguageRepos, MixedRepos} \cup
  UNION {{[k \in 1..m |-> RepoOf(k, f[k][1], f[k][2])] :
            f \in [1..m -> RankItems]} : m \in 0..n}

InitRank == Idle /\ env = Configured /\ fnIn \in RankInputs(MaxRepos) /\ fnOut = NoFn

RankApply ==
  /\ fnOut = NoFn
  /\ fnOut' = [applied |-> TRUE, languages |-> BulkLanguages(fnIn),
               languageCounts |->
                 LanguageCounts(<<>>, Slice(NonFork(fnIn), REPO_SAMPLE_LIMIT))]
  /\ UNCHANGED <<env, fnIn, svcVars>>

SpecRank == InitRank /\ [][RankApply]_vars

(***************************************************************************)
(* Properties.                                                             *)
(***************************************************************************)
Range(s) == {s[i] : i \in 1..Len(s)}

EnrichmentApis == {"profile", "repos", "followers", "orgs", "languages"}

\* the cache.set calls the request now in slot r has made
SetsBy(r) == {i \in (arrival[r].seen + 1)..Len(setLog) : setLog[i].by = r}

\* the cache.set calls on the key of the request in slot r made before it
\* arrived
PriorSets(r) == {i \in 1..arrival[r].seen : setLog[i].key = arrival[r].key}

LastPrior(r) == CHOOSE i \in PriorSets(r) : \A j \in PriorSets(r) : j <= i

\* C1: a single-account request that missed the cache and whose budget
\* query reported fewer than 50 remaining calls has answered 429, has
\* issued no call but the budget query and has written nothing to the
\* cache.
C1_DeniedIssuesNothing ==
  \A r \in Reqs :
    (loc[r].h = "user" /\ loc[r].remaining < 50) =>
      /\ pc[r] = "done"
      /\ resp[r].status = 429
      /\ calls[r] = <<Call("rate_limit", 0)>>
      /\ pending[r] = {}
      /\ timers[r] = <<>>
      /\ SetsBy(r) = {}

C1_Witness ==
  \E r \in Reqs :
    /\ pc[r] = "done"
    /\ loc[r].h = "user"
    /\ loc[r].remaining = 49
    /\ resp[r].status = 429

\* C2: the bulk enrichment loop visits every discovered account and adds
\* exactly one entry per account, whichever sub-fetches fail: while it
\* runs (in the pause after an account too) there is one entry per account
\* already visited, once discovery has
\* succeeded the request ends with status 200, and the response has as
\* many entries as the discovered list.
C2_OutputLengthIsInputLength ==
  \A r \in Reqs :
    loc[r].h = "dev" =>
      /\ pc[r] = "enrich" =>
           /\ loc[r].idx <= Len(loc[r].allDevelopers)
           /\ Len(loc[r].enrichedDevelopers) = loc[r].idx - 1
      /\ pc[r] = "enrich_delay" =>
           /\ loc[r].idx <= Len(loc[r].allDevelopers)
           /\ Len(loc[r].enrichedDevelopers) = loc[r].idx
      /\ pc[r] = "done" =>
           /\ resp[r].status = 200
           /\ Len(resp[r].body) = Len(loc[r].allDevelopers)
           /\ \A i \in 1..Len(loc[r].allDevelopers) :
                {Call("profile", i), Call("repos", i)} \subseteq Range(calls[r])

C2_Witness ==
  \E r \in Reqs :
    /\ pc[r] = "done"
    /\ loc[r].h = "dev"
    /\ Len(loc[r].allDevelopers) = 3
    /\ Len(resp[r].body) = 3
    /\ \E a \in BulkApis : loc[r].joins[2][a].st = "failed"
    /\ \A i \in {1, 3} : \A a \in BulkApis : loc[r].joins[i][a].st = "ok"
    /\ resp[r].body[2].languages = <<>>
    /\ resp[r].body[1].languages # <<>>
    /\ resp[r].body[3].languages # <<>>

\* the entry the claim expects for developer d whose two calls answered j
C3_Expected(entry, d, j) ==
  IF \E a \in BulkApis : j[a].st = "failed"
  THEN entry = [username |-> d.username, avatar |-> d.avatar,
                profile |-> d.profile, repos_url |-> d.repos_url,
                followers |-> d.followers, languages |-> <<>>]
  ELSE /\ \A a \in BulkApis : j[a].st = "ok"
       /\ entry = [username |-> d.username,
                   avatar |-> j["profile"].data.avatar_url,
                   profile |-> j["profile"].data.html_url,
                   repos_url |-> d.repos_url,
                   followers |-> j["profile"].data.followers,
                   languages |-> BulkLanguages(j["repos"].data)]

\* C3: in bulk enrichment the i-th entry is decided by the i-th account
\* alone: the discovery summary with languages = [] when one of its two
\* sub-fetches failed, the enriched entry when both succeeded.
C3_EntryPerAccount ==
  \A r \in Reqs :
    (loc[r].h = "dev" /\ pc[r] \in {"enrich", "enrich_delay", "done"}) =>
      /\ \A i \in 1..Len(loc[r].enrichedDevelopers) :
           i <= Len(loc[r].allDevelopers) =>
             C3_Expected(loc[r].enrichedDevelopers[i],
                         loc[r].allDevelopers[i], loc[r].joins[i])
      /\ pc[r] = "done" => resp[r].body = loc[r].enrichedDevelopers

C3_Witness ==
  \E r \in Reqs :
    /\ pc[r] = "done"
    /\ loc[r].h = "dev"
    /\ Len(resp[r].body) = 2
    /\ loc[r].joins[1]["repos"].st = "failed"
    /\ resp[r].body[1] = [username |-> "dev1", avatar |-> "avatar/dev1",
                          profile |-> "html/dev1", repos_url |-> "repos/dev1",
                          followers |-> 0, languages |-> <<>>]
    /\ resp[r].body[2].followers = 7
    /\ resp[r].body[2].languages = <<"Rust", "Go">>

\* the last cache.set on the key of the request in slot r was more than
\* 3600 seconds before it arrived
C4_ArrivedAfterTTL(r) ==
  /\ pc[r] # "idle"
  /\ PriorSets(r) # {}
  /\ arrival[r].at > setLog[LastPrior(r)].at + 3600

\* C4: a request that arrives more than 3600 s after the last set of its
\* key misses: it starts a fetch cycle (budget query or probe) and, when it
\* answers 200, answers with the value its own cycle computed and cached.
C4_ExpiredIsMiss ==
  \A r \in Reqs :
    C4_ArrivedAfterTTL(r) =>
      /\ calls[r] # <<>>
      /\ calls[r][1] = IF arrival[r].key = DevelopersKey
                       THEN Call("search_probe", 0)
                       ELSE Call("rate_limit", 0)
      /\ (pc[r] = "done" /\ resp[r].status = 200) =>
           \E i \in SetsBy(r) :
             /\ setLog[i].key = arrival[r].key
             /\ setLog[i].v = resp[r].body

C4_Witness ==
  \E r \in Reqs :
    /\ C4_ArrivedAfterTTL(r)
    /\ arrival[r].at = setLog[LastPrior(r)].at + 3601
    /\ pc[r] = "done"
    /\ resp[r].status = 200
    /\ SetsBy(r) # {}

\* a cache.set on the key of the request in slot r that completed before
\* the request arrived, no more than 3600 s before
C5_InWindow(r, i) ==
  /\ pc[r] # "idle"
  /\ arrival[r].key # DevelopersKey
  /\ i \in PriorSets(r)
  /\ arrival[r].at <= setLog[i].at + 3600

\* C5 as stated: once a single-account request for u has completed
\* successfully, every later request for u within 3600 s issues no upstream
\* call and returns the payload of that completed request.
C5_SamePayloadAsFirst ==
  \A r \in Reqs : \A i \in 1..Len(setLog) :
    C5_InWindow(r, i) =>
      /\ calls[r] = <<>>
      /\ pc[r] = "done"
      /\ resp[r] = [status |-> 200, body |-> setLog[i].v]

\* C5, amended: once a single-account request for u has completed
\* successfully, every later request for u within 3600 s issues no upstream
\* call and returns the payload most recently cached for u when it
\* arrived, which is the completed request's payload when no other cycle
\* for u has written since.
C5_SamePayloadAsLastWriter ==
  \A r \in Reqs : \A i \in 1..Len(setLog) :
    C5_InWindow(r, i) =>
      /\ calls[r] = <<>>
      /\ pending[r] = {}
      /\ pc[r] = "done"
      /\ resp[r] = [status |-> 200, body |-> setLog[LastPrior(r)].v]
      /\ (\A j \in PriorSets(r) : j <= i) => resp[r].body = setLog[i].v

C5_Witness ==
  \E r \in Reqs : \E i, j \in 1..Len(setLog) :
    /\ C5_InWindow(r, i)
    /\ C5_InWindow(r, j)
    /\ i < j
    /\ setLog[i].v # setLog[j].v
    /\ calls[r] = <<>>
    /\ resp[r] = [status |-> 200, body |-> setLog[j].v]

\* C6: a request that ends in an error response has made no cache.set,
\* and every value the cache holds was stored by a cycle that went on to
\* answer 200 with it.
C6_FailedCycleNeverSets ==
  /\ \A r \in Reqs :
       (pc[r] = "done" /\ resp[r].status # 200) => SetsBy(r) = {}
  /\ \A i \in 1..Len(setLog) : setLog[i].status = 200
  /\ \A k \in DOMAIN cache :
       \E i \in 1..Len(setLog) :
         /\ setLog[i].key = k
         /\ setLog[i].v = cache[k].v
         /\ setLog[i].at + stdTTL = cache[k].t

C6_Witness ==
  \E r \in Reqs :
    /\ pc[r] = "done"
    /\ arrival[r].key = UserKey("abel")
    /\ resp[r].status = 503
    /\ Len(calls[r]) >= 3
    /\ DOMAIN cache = {DevelopersKey}
    /\ setLog[Len(setLog)].at <= arrival[r].at

\* C7: the discovered list never holds more than 100 accounts, a further
\* page is awaited only while it holds fewer than 100, and the list handed
\* to enrichment and the response hold at most 100.
C7_DiscoveredAtMostCap ==
  \A r \in Reqs :
    loc[r].h = "dev" =>
      /\ Len(loc[r].allDevelopers) <= 100
      /\ Len(loc[r].allDevelopers) <= loc[r].received
      /\ pc[r] = "page" => Len(loc[r].allDevelopers) < 100
      /\ (pc[r] = "done" /\ resp[r].status = 200) => Len(resp[r].body) <= 100

C7_Witness ==
  \E r \in Reqs :
    /\ loc[r].h = "dev"
    /\ pc[r] = "enrich"
    /\ loc[r].received = 150
    /\ Len(loc[r].allDevelopers) = 100
    /\ loc[r].allDevelopers[100].username = "dev100"

C8_SearchCalls(r) ==
  Cardinality({k \in 1..Len(calls[r]) : calls[r][k].api = "search"})

\* C8: the page count a discovery computes from the probe is
\* ceil(min(totalCount, 100) / 100), and a discovery that has completed has
\* issued, after the probe, that many page requests; with totalCount = 0 it
\* has issued none and the list is empty.
C8_PageCount ==
  \A r \in Reqs :
    /\ loc[r].h = "dev" =>
         loc[r].pages = (Min(loc[r].total_count, 100) + 99) \div 100
    /\ (loc[r].h = "dev" /\ pc[r] \in {"enrich", "done"}) =>
      /\ C8_SearchCalls(r) = (Min(loc[r].total_count, 100) + 99) \div 100
      /\ loc[r].total_count = 0 =>
           /\ C8_SearchCalls(r) = 0
           /\ loc[r].allDevelopers = <<>>
           /\ pc[r] = "done"
           /\ resp[r] = [status |-> 200, body |-> <<>>]

C8_Witness ==
  /\ \E r \in Reqs :
       /\ loc[r].h = "dev"
       /\ pc[r] = "enrich"
       /\ loc[r].total_count = 250
       /\ loc[r].received = 99
       /\ C8_SearchCalls(r) = 1
  /\ \E r \in Reqs :
       /\ loc[r].h = "dev"
       /\ pc[r] = "done"
       /\ loc[r].total_count = 0
       /\ C8_SearchCalls(r) = 0

\* the repositories the ranking samples
C9_Sampled == Slice(NonFork(fnIn), 50)

C9_Count(lang) ==
  Cardinality({k \in 1..Len(C9_Sampled) : C9_Sampled[k].language = lang})

C9_FirstSeen(lang) ==
  CHOOSE k \in 1..Len(C9_Sampled) :
    /\ C9_Sampled[k].language = lang
    /\ \A m \in 1..(k - 1) : C9_Sampled[m].language # lang

C9_Outranks(a, b) ==
  \/ C9_Count(a) > C9_Count(b)
  \/ C9_Count(a) = C9_Count(b) /\ C9_FirstSeen(a) < C9_FirstSeen(b)

\* C9: the languages list of the bulk enrichment names languages of the
\* sampled repositories, a language standing before another has the
\* higher repository count or, at equal counts, was met first among the
\* sampled repositories, and a language is left out only behind five
\* that outrank it.
C9_RankedByCountThenFirstSeen ==
  fnOut.applied =>
    LET L == fnOut.languages IN
    /\ \A i \in 1..Len(L) : L[i] # Null /\ C9_Count(L[i]) >= 1
    /\ \A i, j \in 1..Len(L) : i < j => C9_Outranks(L[i], L[j])
    /\ \A k \in 1..Len(C9_Sampled) :
         LET lang == C9_Sampled[k].language IN
         (lang # Null /\ lang \notin Range(L)) =>
           Len(L) = 5 /\ C9_Outranks(L[5], lang)

C9_Witness ==
  /\ fnOut.applied
  /\ fnIn = TiedRepos
  /\ C9_Count("Go") = 3 /\ C9_Count("Rust") = 3 /\ C9_Count("Python") = 1
  /\ Slice(fnOut.languages, 2) = <<"Rust", "Go">>

C10_Names(languageResponses) ==
  UNION {{languageResponses[i][k][1] : k \in 1..Len(languageResponses[i])} :
           i \in 1..Len(languageResponses)}

RECURSIVE C10_SumBytes(_, _)
C10_SumBytes(lang, languageResponses) ==
  IF languageResponses = <<>> THEN 0
  ELSE (LET m == Head(languageResponses)
        IN  IF HasKey(m, lang) THEN Lookup(m, lang) ELSE 0)
       + C10_SumBytes(lang, Tail(languageResponses))

\* C10: the languages of a single-account payload are, for each language
\* named in some sampled repository's language map, the sum of its bytes
\* over all the maps, each language once, whatever the order in which the
\* language fetches completed.
C10_TallyIsSum ==
  \A r \in Reqs :
    (pc[r] = "done" /\ loc[r].h = "user" /\ resp[r].status = 200) =>
      LET R == loc[r].languageResponses
          L == resp[r].body.languages
      IN  /\ {L[i].name : i \in 1..Len(L)} = C10_Names(R)
          /\ \A i, j \in 1..Len(L) : L[i].name = L[j].name => i = j
          /\ \A i \in 1..Len(L) : L[i].bytes = C10_SumBytes(L[i].name, R)

C10_Witness ==
  \E r \in Reqs :
    /\ pc[r] = "done"
    /\ loc[r].h = "user"
    /\ resp[r].status = 200
    /\ loc[r].languageResponses =
         << << <<"A", 10>>, <<"B", 5>> >>, << <<"A", 3>>, <<"C", 7>> >> >>
    /\ loc[r].completionOrder = <<2, 1>>
    /\ {<<resp[r].body.languages[i].name, resp[r].body.languages[i].bytes>> :
          i \in 1..Len(resp[r].body.languages)}
       = {<<"A", 13>>, <<"B", 5>>, <<"C", 7>>}

\* the response of slot r is one of the two terminal answers
C11_Terminal(r) ==
  \/ resp[r].status = 200
  \/ /\ resp[r].status \in 400..599
     /\ {"error", "message"} \subseteq DOMAIN resp[r].body

\* C11 as stated: every request sends exactly one response, 200 or an
\* error status with a body holding error and message, never a second
\* one, and issues no upstream call once the response is sent.
C11_OneResponseNoLateCall ==
  /\ [](\A r \in Reqs :
          /\ sent[r] <= 1
          /\ pc[r] = "done" => (sent[r] = 1 /\ C11_Terminal(r))
          /\ pc[r] \notin {"idle", "done"} => sent[r] = 0)
  /\ [][\A r \in Reqs :
          (pc[r] = "done" /\ arrivals' = arrivals) => calls'[r] = calls[r]]_vars

\* an error response has been sent while a staggered language fetch of
\* the same request is still to be issued
C11_Witness ==
  \E r \in Reqs :
    /\ pc[r] = "done"
    /\ sent[r] = 1
    /\ resp[r].status = 503
    /\ loc[r].h = "caught"
    /\ loc[r].stage = "languages"
    /\ timers[r] # <<>>

\* the error is the upstream's primary rate-limit answer
C12_RateLimited(error) ==
  error.response /\ error.status = 403 /\ error.rateLimitMsg

\* C12 as stated: on the bulk path as on the single-account path, a
\* request ended by a rate-limited upstream failure answers 429 with the
\* reset time.
C12_RateLimitedIs429 ==
  \A r \in Reqs :
    (pc[r] = "done" /\ loc[r].h = "caught" /\ C12_RateLimited(loc[r].error)) =>
      /\ resp[r].status = 429
      /\ "resetTime" \in DOMAIN resp[r].body

\* a bulk request whose probe was answered 403 'API rate limit exceeded'
C12_Witness ==
  \E r \in Reqs :
    /\ pc[r] = "done"
    /\ arrival[r].key = DevelopersKey
    /\ loc[r] = [h |-> "caught", error |-> ErrRateLimited, stage |-> "probe"]
    /\ resp[r].status = 500

\* C13 as stated: every 429 of the single-account endpoint carries a reset
\* timestamp, and the guard's denial also the remaining-call count.
C13_Every429HasReset ==
  \A r \in Reqs :
    (pc[r] = "done" /\ arrival[r].key # DevelopersKey /\ resp[r].status = 429) =>
      /\ "resetTime" \in DOMAIN resp[r].body
      /\ loc[r].h = "user" =>
           /\ "remainingCalls" \in DOMAIN resp[r].body
           /\ resp[r].body.remainingCalls = loc[r].remaining

\* the upstream answered 429 and the handler passed the status on
C13_Witness ==
  \E r \in Reqs :
    /\ pc[r] = "done"
    /\ loc[r].h = "caught"
    /\ loc[r].error = ErrTooMany
    /\ resp[r].status = 429
    /\ "resetTime" \notin DOMAIN resp[r].body

\* C14: a single-account request whose profile fetch is answered 404 ends
\* with status 404 and the error body, issues nothing after the profile
\* fetch and makes no cache.set; no entry exists for the username.
C14_UnknownAccountIs404 ==
  \A r \in Reqs :
    (loc[r].h = "caught" /\ loc[r].stage = "profile"
       /\ loc[r].error = ErrNotFound) =>
      /\ pc[r] = "done"
      /\ resp[r] = [status |-> 404,
                    body |-> [error |-> "Failed to fetch user data",
                              message |-> "Not Found"]]
      /\ calls[r] = <<Call("rate_limit", 0), Call("profile", 0)>>
      /\ SetsBy(r) = {}
      /\ UserKey(param[r]) \notin DOMAIN cache

C14_Witness ==
  \E r \in Reqs :
    /\ pc[r] = "done"
    /\ loc[r] = [h |-> "caught", error |-> ErrNotFound, stage |-> "profile"]
    /\ resp[r].status = 404
    /\ cache = <<>>

\* the upstream answered with a 5xx status or did not answer at all
C15_Unavailable(error) ==
  \/ ~error.response
  \/ error.status \in 500..599

\* C15 as stated: on either endpoint, a request ended by an upstream 5xx
\* or network failure answers 502 or 503.
C15_UnavailableIs50x ==
  \A r \in Reqs :
    (pc[r] = "done" /\ loc[r].h = "caught" /\ C15_Unavailable(loc[r].error)) =>
      resp[r].status \in {502, 503}

\* a bulk request whose discovery was answered 503, answered with 500
C15_Witness ==
  \E r \in Reqs :
    /\ pc[r] = "done"
    /\ arrival[r].key = DevelopersKey
    /\ loc[r].h = "caught"
    /\ loc[r].error = ErrUnavailable
    /\ resp[r].status = 500

\* C16: a bulk request whose probe or page request failed is done with an
\* error response that carries no list, has issued no profile or repos
\* fetch, has nothing in flight and has made no cache.set.
C16_DiscoveryFailureAborts ==
  \A r \in Reqs :
    (loc[r].h = "caught" /\ loc[r].stage \in {"probe", "page"}) =>
      /\ pc[r] = "done"
      /\ resp[r].status = 500
      /\ resp[r].body = [error |-> "Failed to fetch developers",
                         message |-> loc[r].error.message]
      /\ \A k \in 1..Len(calls[r]) : calls[r][k].api \in {"search_probe", "search"}
      /\ pending[r] = {}
      /\ SetsBy(r) = {}

\* the page request of a discovery failed after the probe had succeeded
C16_Witness ==
  \E r \in Reqs :
    /\ pc[r] = "done"
    /\ loc[r].h = "caught"
    /\ loc[r].stage = "page"
    /\ Len(calls[r]) >= 2
    /\ resp[r].status = 500
    /\ DevelopersKey \notin DOMAIN cache

\* C17: a single-account request in which the profile, repos, followers,
\* orgs or a language fetch failed is done with an error response that
\* holds no profile data and has made no cache.set; a 200 response is
\* built from a complete set of answers.
C17_NoPartialProfile ==
  \A r \in Reqs :
    /\ (loc[r].h = "caught"
          /\ loc[r].stage \in {"profile", "join", "languages"}) =>
         /\ pc[r] = "done"
         /\ resp[r].status \in 400..599
         /\ DOMAIN resp[r].body \subseteq {"error", "message", "resetTime"}
         /\ SetsBy(r) = {}
    /\ (pc[r] = "done" /\ loc[r].h = "user" /\ resp[r].status = 200) =>
         /\ resp[r].body = UserData(loc[r].userRes, loc[r].repos,
                                    loc[r].followersRes, loc[r].orgsRes,
                                    loc[r].languageResponses)
         /\ Len(loc[r].languageResponses) = Min(Len(loc[r].repos), 10)

\* the last language fetch failed after everything else had succeeded
C17_Witness ==
  \E r \in Reqs :
    /\ pc[r] = "done"
    /\ loc[r].h = "caught"
    /\ loc[r].stage = "languages"
    /\ Len(calls[r]) = 7
    /\ pending[r] = {}
    /\ resp[r].status = 503
    /\ cache = <<>>

\* C18 as stated: every upstream call of either endpoint carries an
\* Authorization header exactly when GITHUB_TOKEN is configured.
C18_AuthorizationIffToken ==
  \A r \in Reqs :
    calls[r] # <<>> =>
      ("Authorization" \in DOMAIN HeadersOf(r) <=> env.GITHUB_TOKEN # Undefined)

\* without a token, a single-account request has called the upstream with
\* the header Authorization: token undefined
C18_Witness ==
  \E r \in Reqs :
    /\ env = Unconfigured
    /\ arrival[r].key = UserKey("abel")
    /\ Call("rate_limit", 0) \in Range(calls[r])
    /\ HeadersOf(r).Authorization = "token undefined"


\* the enrichment calls the request in slot r has issued: all but the
\* budget query
C19_CallsOf(r) ==
  Cardinality({k \in 1..Len(calls[r]) : calls[r][k].api # "rate_limit"})

RECURSIVE C19_CallsIn(_)
C19_CallsIn(S) ==
  IF S = {} THEN 0
  ELSE LET r == CHOOSE x \in S : TRUE
       IN  C19_CallsOf(r) + C19_CallsIn(S \ {r})

\* the requests being handled that the guard has let pass
C19_Admitted ==
  {r \in Reqs : /\ pc[r] \in {"profile", "join", "languages"}
                /\ loc[r].h = "user"
                /\ loc[r].remaining >= 50}

\* C19 as stated: the enrichment calls issued by the requests being
\* handled that the guard admitted never exceed the remaining budget a
\* guard observed.
C19_BudgetCoversCalls ==
  C19_Admitted # {} =>
    \E r \in C19_Admitted : C19_CallsIn(C19_Admitted) <= loc[r].remaining

\* four requests in flight, each admitted on a remaining budget of 50,
\* have issued 14 calls each
C19_Witness ==
  /\ C19_Admitted = Reqs
  /\ \A r \in Reqs : loc[r].remaining = 50 /\ C19_CallsOf(r) = 14
  /\ C19_CallsIn(Reqs) = 56

\* the cache.set calls made on key k so far
C20_SetsOn(k) == {i \in 1..Len(setLog) : setLog[i].key = k}

\* the value the cycle of the request in slot r computes from the answers
\* to its own calls: the list with one entry per discovered account,
\* enriched from the account's two answers or degraded when one failed, or
\* the userData of the account
C20_OwnValue(r) ==
  IF arrival[r].key = "developers"
  THEN [i \in 1..Len(loc[r].allDevelopers) |->
          LET d == loc[r].allDevelopers[i]
              j == loc[r].joins[i]
          IN  IF \E a \in {"profile", "repos"} : j[a].st = "failed"
              THEN [username |-> d.username, avatar |-> d.avatar,
                    profile |-> d.profile, repos_url |-> d.repos_url,
                    followers |-> d.followers, languages |-> <<>>]
              ELSE [username |-> d.username,
                    avatar |-> j["profile"].data.avatar_url,
                    profile |-> j["profile"].data.html_url,
                    repos_url |-> d.repos_url,
                    followers |-> j["profile"].data.followers,
                    languages |-> BulkLanguages(j["repos"].data)]]
  ELSE UserData(loc[r].userRes, loc[r].repos, loc[r].followersRes,
                loc[r].orgsRes, loc[r].languageResponses)

\* C20: under concurrent requests for one uncached key, on either
\* endpoint, whatever the cache holds under a key is the whole value of
\* the last cache.set on that key, and every request that missed and
\* answers 200 ran its own fetch cycle from its first call on and answers
\* with the whole value computed from the answers to its own calls, the
\* one it stored under its key.
C20_LastWriterWholeValue ==
  /\ \A k \in DOMAIN cache :
       /\ C20_SetsOn(k) # {}
       /\ LET last == CHOOSE i \in C20_SetsOn(k) : \A j \in C20_SetsOn(k) : j <= i
          IN  cache[k] = [v |-> setLog[last].v, t |-> setLog[last].at + stdTTL]
  /\ \A r \in Reqs :
       (pc[r] = "done" /\ resp[r].status = 200 /\ calls[r] # <<>>) =>
         /\ IF arrival[r].key = "developers"
            THEN calls[r][1] = Call("search_probe", 0) /\ loc[r].h = "dev"
            ELSE calls[r][1] = Call("rate_limit", 0) /\ loc[r].h = "user"
         /\ resp[r].body = C20_OwnValue(r)
         /\ \E i \in SetsBy(r) :
              setLog[i].key = arrival[r].key /\ setLog[i].v = resp[r].body

\* two bulk requests missed the key 'developers' at the same time, computed
\* different lists, and the cache holds the list of the one that finished
\* last
C20_Witness ==
  \E r1, r2 \in Reqs :
    /\ r1 # r2
    /\ pc[r1] = "done" /\ pc[r2] = "done"
    /\ resp[r1].status = 200 /\ resp[r2].status = 200
    /\ arrival[r1].key = "developers" /\ arrival[r2].key = "developers"
    /\ arrival[r1].seen = 0 /\ arrival[r2].seen = 0
    /\ setLog = <<[key |-> "developers", v |-> resp[r1].body, at |-> setLog[1].at,
                   by |-> r1, status |-> 200],
                  [key |-> "developers", v |-> resp[r2].body, at |-> setLog[2].at,
                   by |-> r2, status |-> 200]>>
    /\ resp[r1].body # resp[r2].body
    /\ resp[r1].body[1].followers = 7 /\ resp[r2].body[1].followers = 8
    /\ cache["developers"].v = resp[r2].body

\* two requests for one account missed its key at the same time, computed
\* different values, and the cache holds the value of the one that
\* finished last
C20_UserRace ==
  \E r1, r2 \in Reqs :
    /\ r1 # r2
    /\ pc[r1] = "done" /\ pc[r2] = "done"
    /\ resp[r1].status = 200 /\ resp[r2].status = 200
    /\ arrival[r1].key = "user-abel" /\ arrival[r2].key = "user-abel"
    /\ arrival[r1].seen = 0 /\ arrival[r2].seen = 0
    /\ Len(setLog) = 2
    /\ setLog[1].by = r1 /\ setLog[2].by = r2
    /\ resp[r1].body # resp[r2].body
    /\ cache["user-abel"].v = resp[r2].body

\* the budget queries the request in slot r has issued
C21_BudgetQueries(r) ==
  Cardinality({k \in 1..Len(calls[r]) : calls[r][k].api = "rate_limit"})

\* the request in slot r found an unexpired entry under its key on arrival
C21_WasHit(r) ==
  /\ PriorSets(r) # {}
  /\ arrival[r].at <= setLog[LastPrior(r)].at + 3600

\* C21: a single-account request that missed has issued exactly one budget
\* query, as its first call, and issues the first enrichment call only
\* once that query has been answered; a request that hit has issued no
\* call at all and is answered 200 with the cached value, whatever budget
\* the upstream would report.
C21_OneQueryAfterMissBeforeFetch ==
  \A r \in Reqs :
    (pc[r] # "idle" /\ arrival[r].key # DevelopersKey) =>
      IF C21_WasHit(r)
      THEN /\ calls[r] = <<>>
           /\ pending[r] = {}
           /\ pc[r] = "done"
           /\ resp[r] = [status |-> 200, body |-> setLog[LastPrior(r)].v]
      ELSE /\ C21_BudgetQueries(r) = 1
           /\ calls[r][1] = Call("rate_limit", 0)
           /\ pc[r] = "rate_limit" =>
                calls[r] = <<Call("rate_limit", 0)>>
                  /\ pending[r] = {Call("rate_limit", 0)}
           /\ Len(calls[r]) > 1 =>
                /\ Call("rate_limit", 0) \notin pending[r]
                /\ pc[r] # "rate_limit"
                /\ calls[r][2] = Call("profile", 0)

\* one request missed, queried the budget once and was refused at 49 while
\* another, arriving after the entry was stored, is served from the cache
\* without a call
C21_Witness ==
  \E r1, r2 \in Reqs :
    /\ pc[r1] = "done" /\ pc[r2] = "done"
    /\ C21_WasHit(r1)
    /\ calls[r1] = <<>>
    /\ resp[r1].status = 200
    /\ ~C21_WasHit(r2)
    /\ calls[r2] = <<Call("rate_limit", 0)>>
    /\ loc[r2].h = "user" /\ loc[r2].remaining = 49
    /\ resp[r2].status = 429

\* C22: a single-account request whose budget query reported `remaining`
\* was refused by the guard (429 'Rate limit near exceeded', no further
\* call) exactly when remaining < 50; with remaining >= 50, 50 included,
\* its next call, the profile fetch, has been issued.
C22_DeniedIffBelowMinimum ==
  \A r \in Reqs :
    loc[r].h = "user" =>
      /\ loc[r].remaining < 50 =>
           /\ pc[r] = "done"
           /\ resp[r].status = 429
           /\ resp[r].body.error = "Rate limit near exceeded"
           /\ calls[r] = <<Call("rate_limit", 0)>>
      /\ loc[r].remaining >= 50 =>
           /\ Len(calls[r]) >= 2
           /\ calls[r][2] = Call("profile", 0)
           /\ pc[r] = "done" => resp[r].status = 200

\* admitted on a report of exactly 50: the profile fetch is in flight
C22_Witness ==
  \E r \in Reqs :
    /\ loc[r].h = "user"
    /\ loc[r].remaining = 50
    /\ pc[r] = "profile"
    /\ pending[r] = {Call("profile", 0)}

\* the language fetches the request in slot r has issued
C23_LanguageCalls(r) ==
  Cardinality({k \in 1..Len(calls[r]) : calls[r][k].api = "languages"})

\* its enrichment calls: all but the budget query
C23_EnrichmentCalls(r) ==
  Cardinality({k \in 1..Len(calls[r]) : calls[r][k].api # "rate_limit"})

\* C23: a single-account request issues and schedules at most 10 language
\* fetches, min(number of non-fork repositories, 10) once the repositories
\* are known, each for a different sampled repository, so that its
\* enrichment calls number at most 4 + 10, which is within the minimum of
\* 50 the guard requires.
C23_AtMostTenLanguageFetches ==
  \A r \in Reqs :
    (pc[r] # "idle" /\ arrival[r].key # DevelopersKey) =>
      /\ C23_LanguageCalls(r) + Len(timers[r]) <= 10
      /\ \A j, k \in 1..Len(calls[r]) :
           (calls[r][j] = calls[r][k] /\ calls[r][j].api = "languages") => j = k
      /\ (loc[r].h = "user" /\ "repos" \in DOMAIN loc[r]) =>
           C23_LanguageCalls(r) + Len(timers[r]) = Min(Len(loc[r].repos), 10)
      /\ C23_EnrichmentCalls(r) <= 4 + 10
      /\ 4 + 10 <= MinRemaining

\* eleven non-fork repositories came back and the request has answered
\* 200 after ten language fetches
C23_Witness ==
  \E r \in Reqs :
    /\ pc[r] = "done"
    /\ resp[r].status = 200
    /\ loc[r].h = "user"
    /\ Len(loc[r].repos) = 11
    /\ C23_LanguageCalls(r) = 10
    /\ C23_EnrichmentCalls(r) = 14
    /\ timers[r] = <<>>

\* the calls of Promise.all the request in slot r has issued
C24_JoinIssued(r) == {a \in {"repos", "followers", "orgs"} : Call(a, 0) \in Range(calls[r])}

\* C24 as stated: the repos, followers and orgs fetches are issued without
\* waiting for the profile fetch: once the profile fetch is issued, so are
\* they.
C24_IssuedWithProfile ==
  \A r \in Reqs :
    (arrival[r].key # DevelopersKey /\ Call("profile", 0) \in Range(calls[r])) =>
      C24_JoinIssued(r) = {"repos", "followers", "orgs"}

\* C24, amended: the repos, followers and orgs fetches are issued
\* together, none waiting for another, once the profile fetch has
\* completed successfully; while the profile fetch is in flight none of
\* them is issued.
C24_IssuedTogetherAfterProfile ==
  \A r \in Reqs :
    (pc[r] # "idle" /\ arrival[r].key # DevelopersKey) =>
      /\ C24_JoinIssued(r) \in {{}, {"repos", "followers", "orgs"}}
      /\ pc[r] = "profile" =>
           /\ C24_JoinIssued(r) = {}
           /\ pending[r] = {Call("profile", 0)}
      /\ C24_JoinIssued(r) # {} =>
           /\ SubSeq(calls[r], 1, 5) =
                <<Call("rate_limit", 0), Call("profile", 0), Call("repos", 0),
                  Call("followers", 0), Call("orgs", 0)>>
           /\ Call("profile", 0) \notin pending[r]
           /\ loc[r].h = "user" => "userRes" \in DOMAIN loc[r]
           /\ loc[r].h = "caught" => loc[r].stage \in {"join", "languages"}
      /\ pc[r] = "join" =>
           \A a \in {"repos", "followers", "orgs"} :
             loc[r].join[a] = Pending <=> Call(a, 0) \in pending[r]

\* the profile has been received and the three fetches are in flight at
\* once
C24_Witness ==
  \E r \in Reqs :
    /\ pc[r] = "join"
    /\ "userRes" \in DOMAIN loc[r]
    /\ pending[r] = {Call("repos", 0), Call("followers", 0), Call("orgs", 0)}
    /\ \A a \in {"repos", "followers", "orgs"} : loc[r].join[a] = Pending

\* the language fetches of the request in slot r, issued or scheduled
C25_LanguageFetches(r) ==
  Len(timers[r]) + Cardinality({k \in 1..Len(calls[r]) : calls[r][k].api = "languages"})

\* C25: in single-account enrichment no language fetch is issued or
\* scheduled before the repos, followers and orgs fetches have all been
\* answered, in whichever order the three answers come in, and the payload
\* of a 200 response is built from the repos answer, the followers answer
\* and the orgs answer each in its own place, whatever that order was.
C25_JoinedBeforeLanguages ==
  \A r \in Reqs :
    (pc[r] # "idle" /\ arrival[r].key # DevelopersKey) =>
      /\ pc[r] \in {"rate_limit", "profile", "join"} => C25_LanguageFetches(r) = 0
      /\ C25_LanguageFetches(r) > 0 =>
           \A a \in {"repos", "followers", "orgs"} :
             Call(a, 0) \in Range(calls[r]) /\ Call(a, 0) \notin pending[r]
      /\ (loc[r].h = "user" /\ pc[r] \in {"languages", "done"}
            /\ loc[r].remaining >= 50) =>
           /\ \A a \in {"repos", "followers", "orgs"} : loc[r].join[a].st = "ok"
           /\ Range(loc[r].joinOrder) = {"repos", "followers", "orgs"}
           /\ pc[r] = "done" =>
                resp[r] = [status |-> 200,
                           body |-> UserData(loc[r].userRes,
                                             NonFork(loc[r].join["repos"].data),
                                             loc[r].join["followers"].data,
                                             loc[r].join["orgs"].data,
                                             loc[r].languageResponses)]

\* the orgs answer came in first and the repos answer last; the payload
\* has each in its place
C25_Witness ==
  \E r \in Reqs :
    /\ pc[r] = "done"
    /\ loc[r].h = "user"
    /\ resp[r].status = 200
    /\ loc[r].joinOrder = <<"orgs", "followers", "repos">>
    /\ Len(loc[r].join["repos"].data) = 3
    /\ Len(resp[r].body.repositories) = 2
    /\ resp[r].body.profile.followers_preview = <<"f1">>
    /\ resp[r].body.profile.organizations = <<"o1">>
    /\ C25_LanguageFetches(r) = 2

\* the page requests among the first j calls of the request in slot r
C26_PagesUpTo(r, j) ==
  Cardinality({k \in 1..j : calls[r][k].api = "search"})

\* C26: within one bulk discovery the page requests are numbered 1, 2, ...
\* in the order they are issued, a page request is issued only when every
\* earlier one has returned, and the discovered list holds the items of
\* the pages in the order the upstream gave them.  With the cap equal to
\* the page size there is never more than one page request.
C26_PagesInOrderNoResort ==
  \A r \in Reqs :
    (pc[r] # "idle" /\ arrival[r].key = DevelopersKey) =>
      /\ \A j \in 1..Len(calls[r]) :
           calls[r][j].api = "search" => calls[r][j].i = C26_PagesUpTo(r, j)
      /\ \A c \in pending[r] :
           c.api = "search" => c.i = C26_PagesUpTo(r, Len(calls[r]))
      /\ pc[r] = "page" =>
           /\ pending[r] = {Call("search", loc[r].page)}
           /\ loc[r].page = C26_PagesUpTo(r, Len(calls[r]))
      /\ C26_PagesUpTo(r, Len(calls[r])) <= 1
      /\ loc[r].h = "dev" =>
           /\ Len(loc[r].allDevelopers) = Min(loc[r].received, 100)
           /\ \A i \in 1..Len(loc[r].allDevelopers) :
                loc[r].allDevelopers[i] = Summary(SearchItem(i))

\* a page of two accounts has come back and the list holds them in the
\* upstream's order
C26_Witness ==
  \E r \in Reqs :
    /\ pc[r] = "enrich"
    /\ loc[r].h = "dev"
    /\ loc[r].received = 2
    /\ SubSeq(calls[r], 1, 2) = <<Call("search_probe", 0), Call("search", 1)>>
    /\ loc[r].allDevelopers[1].username = "dev1"
    /\ loc[r].allDevelopers[2].username = "dev2"

\* C27 as stated: bulk enrichment handles one account at a time in
\* discovery order: while the calls of an account are in flight no call of
\* an earlier account is (both have completed or failed), the calls are
\* issued account by account, and the i-th entry has the i-th account's
\* username, degraded or not.
C27_OneAccountAtATime ==
  \A r \in Reqs :
    loc[r].h = "dev" =>
      /\ pc[r] = "enrich" => \A c \in pending[r] : c.i = loc[r].idx
      /\ \A j, k \in 1..Len(calls[r]) :
           (j < k /\ calls[r][j].api \in BulkApis /\ calls[r][k].api \in BulkApis)
             => calls[r][j].i <= calls[r][k].i
      /\ \A i \in 1..Len(loc[r].enrichedDevelopers) :
           /\ i <= Len(loc[r].allDevelopers)
           /\ loc[r].enrichedDevelopers[i].username = loc[r].allDevelopers[i].username

\* the profile fetch of the first account failed, the loop has gone on to
\* the second account, and the repos fetch of the first is still in flight
C27_Witness ==
  \E r \in Reqs :
    /\ pc[r] = "enrich"
    /\ loc[r].h = "dev"
    /\ loc[r].idx = 2
    /\ loc[r].joins[1]["profile"].st = "failed"
    /\ loc[r].joins[1]["repos"] = Pending
    /\ pending[r] = {Call("repos", 1), Call("profile", 2), Call("repos", 2)}
    /\ loc[r].enrichedDevelopers[1].username = "dev1"

\* the non-fork repositories of the answer whose primary language is lang
C28_ReposWith(lang) ==
  {k \in 1..Len(fnIn) : ~fnIn[k].fork /\ fnIn[k].language = lang}

\* the languages of the non-fork repositories that have one
C28_Languages ==
  {fnIn[k].language : k \in {j \in 1..Len(fnIn) :
                              ~fnIn[j].fork /\ fnIn[j].language # Null}}

\* C28: the language counts of the bulk enrichment hold, once each, the
\* primary languages of the sampled non-fork repositories, each with the
\* number of those repositories that have it (forks and repositories
\* without a language count nowhere), and the languages list has at most
\* 5 entries, all different and all counted, with counts that do not
\* increase along the list.
C28_OnePerRepositoryTopFive ==
  fnOut.applied =>
    LET acc == fnOut.languageCounts
        L == fnOut.languages
    IN  /\ {acc[i][1] : i \in 1..Len(acc)} = C28_Languages
        /\ \A i, j \in 1..Len(acc) : acc[i][1] = acc[j][1] => i = j
        /\ \A i \in 1..Len(acc) : acc[i][2] = Cardinality(C28_ReposWith(acc[i][1]))
        /\ Len(L) = Min(Cardinality(C28_Languages), 5)
        /\ \A i, j \in 1..Len(L) : L[i] = L[j] => i = j
        /\ \A i \in 1..Len(L) : L[i] \in C28_Languages
        /\ \A i \in 1..(Len(L) - 1) :
             Cardinality(C28_ReposWith(L[i])) >= Cardinality(C28_ReposWith(L[i + 1]))

\* six languages among seven countable repositories, a fork and a
\* repository without a language: five are listed, the one counted twice
\* first
C28_Witness ==
  /\ fnOut.applied
  /\ fnIn = MixedRepos
  /\ fnOut.languageCounts = << <<"L1", 1>>, <<"L2", 2>>, <<"L3", 1>>, <<"L4", 1>>,
                               <<"L5", 1>>, <<"L6", 1>> >>
  /\ fnOut.languages = <<"L2", "L1", "L3", "L4", "L5">>

\* stars plus forks over the repositories of an answer that are not forks
RECURSIVE C29_StarsAndForks(_)
C29_StarsAndForks(reposData) ==
  IF reposData = <<>> THEN 0
  ELSE (IF Head(reposData).fork THEN 0
        ELSE Head(reposData).stargazers_count + Head(reposData).forks_count)
       + C29_StarsAndForks(Tail(reposData))

\* C29: the totalContributions of a single-account payload is the sum of
\* stargazers_count + forks_count over every non-fork repository of the
\* repositories answer, beyond the ten sampled for languages as well, and
\* nothing of a fork.
C29_TotalOverAllNonForks ==
  \A r \in Reqs :
    (pc[r] = "done" /\ loc[r].h = "user" /\ resp[r].status = 200) =>
      resp[r].body.statistics.totalContributions
        = C29_StarsAndForks(loc[r].join["repos"].data)

\* thirteen repositories, the second and fifth forks: 95 from the eleven
\* others, ten of which were sampled for languages
C29_Witness ==
  \E r \in Reqs :
    /\ pc[r] = "done"
    /\ loc[r].h = "user"
    /\ resp[r].status = 200
    /\ Len(loc[r].join["repos"].data) = 13
    /\ Len(loc[r].languageResponses) = 10
    /\ Len(resp[r].body.repositories) = 11
    /\ resp[r].body.statistics.totalContributions = 95

\* the request in slot r answers 200 in this step at the end of a fetch
\* cycle of its own
C30_Serves(r) ==
  /\ pc[r] \notin {"idle", "done"}
  /\ pc'[r] = "done"
  /\ resp'[r].status = 200

\* C30: when a request that missed answers 200, the cache holds under its
\* key, freshly stamped, exactly the payload it serves, stored by that
\* same request; and an entry of the cache changes only by a cache.set on
\* its key, which replaces the whole value, or disappears once expired.
C30_WriteThenServeSameValue ==
  /\ [][\A r \in Reqs :
          C30_Serves(r) =>
            /\ arrival[r].key \in DOMAIN cache'
            /\ cache'[arrival[r].key] = [v |-> resp'[r].body, t |-> now + stdTTL]
            /\ setLog' = Append(setLog, [key |-> arrival[r].key,
                                         v |-> resp'[r].body, at |-> now,
                                         by |-> r, status |-> 200])]_vars
  /\ [][\A k \in DOMAIN cache :
          IF k \in DOMAIN cache'
          THEN cache'[k] # cache[k] =>
                 /\ Len(setLog') = Len(setLog) + 1
                 /\ setLog'[Len(setLog')].key = k
                 /\ cache'[k] = [v |-> setLog'[Len(setLog')].v, t |-> now + stdTTL]
          ELSE cache[k].t < now /\ setLog' = setLog]_vars

\* an entry was stored, expired, and the request that then missed has
\* stored and served its own list in its place
C30_Witness ==
  \E r \in Reqs :
    /\ pc[r] = "done"
    /\ resp[r].status = 200
    /\ arrival[r].key = DevelopersKey
    /\ calls[r] # <<>>
    /\ PriorSets(r) # {}
    /\ arrival[r].at > setLog[LastPrior(r)].at + stdTTL
    /\ cache[DevelopersKey].v = resp[r].body
    /\ Len(resp[r].body) = 1
    /\ setLog[Len(setLog)].by = r

\* the key the claim gives the request in slot r: 'developers' for a bulk
\* request, 'user-u' for a single-account request for u
C31_KeyOf(r) == IF param[r] = "" THEN "developers" ELSE "user-" \o param[r]

\* the keys whose entry differs between the cache c and the cache d
C31_Changed(c, d) ==
  {k \in DOMAIN c \cup DOMAIN d :
     ~(k \in DOMAIN c /\ k \in DOMAIN d /\ c[k] = d[k])}

\* C31: a bulk request reads, writes and lets expire only the entry
\* 'developers' and a single-account request for u only the entry
\* 'user-u': two requests use the same key only when they are for the same
\* endpoint and username, every cache.set is on the key of the request
\* that makes it, a step of a request changes no entry but its own, and a
\* request served from the cache is served the entry of its own key.
C31_KeyspacesIndependent ==
  /\ [](/\ \A r1, r2 \in Reqs :
            (pc[r1] # "idle" /\ pc[r2] # "idle") =>
              (arrival[r1].key = arrival[r2].key <=> param[r1] = param[r2])
        /\ \A r \in Reqs :
            pc[r] # "idle" =>
              /\ arrival[r].key = C31_KeyOf(r)
              /\ \A i \in SetsBy(r) : setLog[i].key = C31_KeyOf(r))
  /\ [][\A r \in Reqs :
          (pc'[r] # pc[r] \/ arrival'[r] # arrival[r]) =>
            /\ C31_Changed(cache, cache') \subseteq {C31_KeyOf(r)'}
            /\ (arrivals' # arrivals /\ pc'[r] = "done") =>
                 /\ C31_KeyOf(r)' \in DOMAIN cache
                 /\ resp'[r] = [status |-> 200, body |-> cache[C31_KeyOf(r)'].v]]_vars

\* the bulk list and the profile of the user named developers are cached
\* side by side, and a request for that user has been served its profile
C31_Witness ==
  \E r \in Reqs :
    /\ DOMAIN cache = {"developers", "user-developers"}
    /\ Len(cache["developers"].v) = 1
    /\ cache["user-developers"].v.profile.data.login = "developers"
    /\ pc[r] = "done"
    /\ param[r] = "developers"
    /\ calls[r] = <<>>
    /\ resp[r] = [status |-> 200, body |-> cache["user-developers"].v]

\* the calls named api among the calls of the request in slot r
C32_Calls(r, api) ==
  Cardinality({k \in 1..Len(calls[r]) : calls[r][k].api = api})

\* C32: with every upstream call answered or failed in the end, every
\* request received is answered; no request issues the same call twice,
\* a discovery issues at most ceil(min(totalCount, 100) / 100) page
\* requests, and a bulk enrichment issues one profile and one repos fetch
\* for each account it has reached, never more than for 100 accounts.
C32_EveryRequestAnswers ==
  /\ [](\A r \in Reqs :
          /\ \A j, k \in 1..Len(calls[r]) : calls[r][j] = calls[r][k] => j = k
          /\ loc[r].h = "dev" =>
               /\ C32_Calls(r, "search") <= (Min(loc[r].total_count, 100) + 99) \div 100
               /\ loc[r].idx <= Len(loc[r].allDevelopers)
               /\ Len(loc[r].allDevelopers) <= 100
               /\ C32_Calls(r, "profile") = loc[r].idx
               /\ C32_Calls(r, "repos") = loc[r].idx)
  /\ \A r \in Reqs :
       (pc[r] \notin {"idle", "done"}) ~> (pc[r] = "done" /\ sent[r] = 1)

\* a bulk request has answered 200 although a fetch of its first account
\* failed, having called once per account and tried nothing again
C32_Witness ==
  \E r \in Reqs :
    /\ pc[r] = "done"
    /\ loc[r].h = "dev"
    /\ resp[r].status = 200
    /\ Len(loc[r].allDevelopers) = 2
    /\ loc[r].joins[1]["profile"].st = "failed"
    /\ Len(calls[r]) = 6

\* the bulk request in slot r arrived while the last list stored before
\* was no older than the TTL
C33_Fresh(r) ==
  /\ pc[r] # "idle"
  /\ arrival[r].key = "developers"
  /\ PriorSets(r) # {}
  /\ arrival[r].at <= setLog[LastPrior(r)].at + 3600

\* C33: a bulk cycle whose discovery succeeded never ends in the error
\* handler: it ends with a cache.set of its list under 'developers' and a
\* 200 response with that list, whatever became of the per-account
\* fetches; and a bulk request that arrives within 3600 s of the last such
\* set answers with the list stored, degraded entries included, without
\* issuing a call.
C33_DegradedListCachedAndServed ==
  \A r \in Reqs :
    /\ (loc[r].h = "caught" /\ arrival[r].key = "developers") =>
         loc[r].stage \in {"probe", "page"}
    /\ (loc[r].h = "dev" /\ pc[r] = "done") =>
         /\ resp[r] = [status |-> 200, body |-> loc[r].enrichedDevelopers]
         /\ Len(resp[r].body) = Len(loc[r].allDevelopers)
         /\ \E i \in SetsBy(r) :
              setLog[i].key = "developers" /\ setLog[i].v = resp[r].body
    /\ C33_Fresh(r) =>
         /\ calls[r] = <<>>
         /\ pending[r] = {}
         /\ pc[r] = "done"
         /\ resp[r] = [status |-> 200, body |-> setLog[LastPrior(r)].v]

\* a list whose first entry is degraded and whose second is enriched was
\* stored, and a request arriving later within the TTL is served it
\* without a call
C33_Witness ==
  \E r \in Reqs :
    /\ C33_Fresh(r)
    /\ arrival[r].at > setLog[LastPrior(r)].at
    /\ calls[r] = <<>>
    /\ resp[r].status = 200
    /\ Len(resp[r].body) = 2
    /\ resp[r].body[1] = [username |-> "dev1", avatar |-> "avatar/dev1",
                          profile |-> "html/dev1", repos_url |-> "repos/dev1",
                          followers |-> 0, languages |-> <<>>]
    /\ resp[r].body[2].languages = <<"Go">>

\* C34: a single-account request whose profile fetch failed, with
\* whatever error, has issued the budget query and the profile fetch and
\* nothing else, has nothing in flight and no language fetch scheduled,
\* and has answered with an error; this remains so for as long as the
\* request is the last one of its slot.
C34_ProfileFailureStopsFetching ==
  \A r \in Reqs :
    (loc[r].h = "caught" /\ loc[r].stage = "profile") =>
      /\ calls[r] = <<Call("rate_limit", 0), Call("profile", 0)>>
      /\ pending[r] = {}
      /\ timers[r] = <<>>
      /\ pc[r] = "done"
      /\ sent[r] = 1
      /\ resp[r].status \in 400..599

\* the profile fetch ended in a network failure after the guard had let
\* the request pass
C34_Witness ==
  \E r \in Reqs :
    /\ loc[r] = [h |-> "caught", error |-> ErrNetwork, stage |-> "profile"]
    /\ pc[r] = "done"
    /\ resp[r].status = 500
    /\ Len(calls[r]) = 2

====
